---- MODULE Spec2Model ----
(***************************************************************************)
(* QuizView: the CSV-to-quiz parser (parseQuizCsv with its record splitter *)
(* splitCsvToRecords and its row tokenizer splitCsvRow).                   *)
(*                                                                         *)
(* Representation.  A JavaScript string is a sequence of one-character     *)
(* strings, so that trimming, lower-casing, integer parsing, quoting and   *)
(* splitting are computed character by character as the code does.  A      *)
(* JavaScript object is a function from the names of its DEFINED fields to *)
(* their values: a field that is undefined is absent from the DOMAIN.      *)
(***************************************************************************)
EXTENDS Integers, Sequences, FiniteSets, TLC

VARIABLES
    csvContent,         \* the text buffer handed to parseQuizCsv
    pending,            \* raw records of splitCsvToRecords not yet iterated
    records,            \* tokenized rows the loop has consumed, in order
    questions,          \* const questions: Question[]
    currentQuestion,    \* let currentQuestion: Partial<Question> | null
    currentLineNumber,  \* let currentLineNumber
    console,            \* console.warn / console.log / console.error calls
    pc,                 \* position of parseQuizCsv: "start", "loop", "done"
    home,               \* useState values of Home (page.tsx)
    fileUpload,         \* useState values of FileUpload
    eventLoop           \* files dropped, FileReaders and timers in flight,
                        \* and the callbacks made so far

vars == <<csvContent, pending, records, questions, currentQuestion,
          currentLineNumber, console, pc, home, fileUpload, eventLoop>>

\* the state of the page around the parser
ui == <<home, fileUpload, eventLoop>>

-----------------------------------------------------------------------------
(* Characters and strings                                                  *)

QUOTE == "\""
COMMA == ","
LF == "\n"
SPACE == " "

Whitespace == {" ", "\n", "\r", "\t"}

UpperLetters == <<"A","B","C","D","E","F","G","H","I","J","K","L","M",
                  "N","O","P","Q","R","S","T","U","V","W","X","Y","Z">>

LowerLetters == <<"a","b","c","d","e","f","g","h","i","j","k","l","m",
                  "n","o","p","q","r","s","t","u","v","w","x","y","z">>

Digits == <<"0","1","2","3","4","5","6","7","8","9">>

\* the lower-case letter of each upper-case letter
LowerOf ==
    [c \in {UpperLetters[i] : i \in 1..Len(UpperLetters)} |->
        LowerLetters[CHOOSE i \in 1..Len(UpperLetters) : UpperLetters[i] = c]]

\* String.prototype.toLowerCase, one character
LowerChar(c) == IF c \in DOMAIN LowerOf THEN LowerOf[c] ELSE c

\* String.prototype.toLowerCase
ToLowerCase(s) == [i \in 1..Len(s) |-> LowerChar(s[i])]

RECURSIVE TrimStart(_)
TrimStart(s) ==
    IF s # <<>> /\ Head(s) \in Whitespace THEN TrimStart(Tail(s)) ELSE s

RECURSIVE TrimEnd(_)
TrimEnd(s) ==
    IF s # <<>> /\ s[Len(s)] \in Whitespace
    THEN TrimEnd(SubSeq(s, 1, Len(s) - 1))
    ELSE s

\* String.prototype.trim
Trim(s) == TrimEnd(TrimStart(s))

\* String.prototype.substring(a, b): arguments are clamped to 0..length and
\* swapped when a > b (0-based, end exclusive)
Substring(s, a, b) ==
    LET ca == IF a < 0 THEN 0 ELSE IF a > Len(s) THEN Len(s) ELSE a
        cb == IF b < 0 THEN 0 ELSE IF b > Len(s) THEN Len(s) ELSE b
        lo == IF ca <= cb THEN ca ELSE cb
        hi == IF ca <= cb THEN cb ELSE ca
    IN  SubSeq(s, lo + 1, hi)

\* String.prototype.replace(/""/g, '"'): leftmost non-overlapping pairs
RECURSIVE ReplaceDoubledQuotes(_)
ReplaceDoubledQuotes(s) ==
    IF s = <<>> THEN <<>>
    ELSE IF Len(s) >= 2 /\ s[1] = QUOTE /\ s[2] = QUOTE
         THEN <<QUOTE>> \o ReplaceDoubledQuotes(SubSeq(s, 3, Len(s)))
         ELSE <<s[1]>> \o ReplaceDoubledQuotes(Tail(s))

IsDigit(c) == \E i \in 1..Len(Digits) : Digits[i] = c

DigitValue(c) == (CHOOSE i \in 1..Len(Digits) : Digits[i] = c) - 1

\* the digits of s read from position i on, with the value acc read so far
RECURSIVE ReadDigits(_, _, _)
ReadDigits(s, i, acc) ==
    IF i <= Len(s) /\ IsDigit(s[i])
    THEN ReadDigits(s, i + 1, acc * 10 + DigitValue(s[i]))
    ELSE acc

\* parseInt(value, 10) reads leading whitespace, an optional sign, then the
\* longest run of digits; the result is NaN when no digit follows
IsNaNParseInt(value) ==
    LET t == TrimStart(value)
        body == IF t # <<>> /\ t[1] \in {"-", "+"} THEN Tail(t) ELSE t
    IN  body = <<>> \/ ~IsDigit(body[1])

\* parseInt(value, 10) when it is not NaN
ParseInt(value) ==
    LET t == TrimStart(value)
        signed == t # <<>> /\ t[1] \in {"-", "+"}
        body == IF signed THEN Tail(t) ELSE t
    IN  IF signed /\ t[1] = "-"
        THEN 0 - ReadDigits(body, 1, 0)
        ELSE ReadDigits(body, 1, 0)

\* safeParseInt (value is never undefined here: it comes from getValue)
SafeParseInt(value, defaultValue) ==
    IF Trim(value) = <<>> THEN defaultValue
    ELSE IF IsNaNParseInt(value) THEN defaultValue ELSE ParseInt(value)

\* getValue(arr, index, '') with the code's 0-based index
GetValue(arr, index) ==
    IF index + 1 <= Len(arr) /\ arr[index + 1] # <<>> THEN arr[index + 1] ELSE <<>>

-----------------------------------------------------------------------------
(* splitCsvRow: the row tokenizer                                          *)

\* (mutation of SplitRowLoop: the continue after an escaped quote is missing,
\* so the pair is taken and the quote state toggles as well)
RECURSIVE SplitRowLoopPairToggles(_, _, _, _, _)
SplitRowLoopPairToggles(row, i, currentCell, inQuotes, result) ==
    IF i > Len(row) THEN Append(result, Trim(currentCell))
    ELSE IF row[i] = QUOTE
         THEN IF inQuotes /\ i + 1 <= Len(row) /\ row[i + 1] = QUOTE
              THEN SplitRowLoopPairToggles(row, i + 2,
                       Append(currentCell, QUOTE), ~inQuotes, result)
              ELSE SplitRowLoopPairToggles(row, i + 1, currentCell, ~inQuotes,
                                           result)
         ELSE IF row[i] = COMMA /\ ~inQuotes
              THEN SplitRowLoopPairToggles(row, i + 1, <<>>, inQuotes,
                       Append(result, Trim(currentCell)))
              ELSE SplitRowLoopPairToggles(row, i + 1,
                       Append(currentCell, row[i]), inQuotes, result)
\* the for loop of splitCsvRow from 1-based position i on
RECURSIVE SplitRowLoop(_, _, _, _, _)
SplitRowLoop(row, i, currentCell, inQuotes, result) ==
    IF i > Len(row) THEN Append(result, Trim(currentCell))
    ELSE IF row[i] = QUOTE
         THEN IF inQuotes /\ i + 1 <= Len(row) /\ row[i + 1] = QUOTE
              THEN SplitRowLoop(row, i + 2, Append(currentCell, QUOTE),
                                inQuotes, result)
              ELSE SplitRowLoop(row, i + 1, currentCell, ~inQuotes, result)
         ELSE IF row[i] = COMMA /\ ~inQuotes
              THEN SplitRowLoop(row, i + 1, <<>>, inQuotes,
                                Append(result, Trim(currentCell)))
              ELSE SplitRowLoop(row, i + 1, Append(currentCell, row[i]),
                                inQuotes, result)

\* the result.map callback: a cell that still starts and ends with a quote
StripSurroundingQuotes(cell) ==
    IF cell # <<>> /\ cell[1] = QUOTE /\ cell[Len(cell)] = QUOTE
    THEN ReplaceDoubledQuotes(Substring(cell, 1, Len(cell) - 1))
    ELSE cell

SplitCsvRow(row) ==
    LET result == SplitRowLoop(row, 1, <<>>, FALSE, <<>>)
    IN  [k \in 1..Len(result) |-> StripSurroundingQuotes(result[k])]

-----------------------------------------------------------------------------
(* splitCsvToRecords: the record splitter                                  *)

\* (mutation of SplitRecordsLoop: the continue after a doubled quote is
\* missing, so the pair is skipped and the quote state toggles as well)
RECURSIVE SplitRecordsLoopPairToggles(_, _, _, _, _)
SplitRecordsLoopPairToggles(csvString, i, currentRecordStart, inQuotes, recs) ==
    IF i > Len(csvString)
    THEN IF currentRecordStart < Len(csvString)
         THEN Append(recs, Substring(csvString, currentRecordStart,
                                     Len(csvString)))
         ELSE recs
    ELSE IF csvString[i] = QUOTE /\ i + 1 <= Len(csvString)
                                 /\ csvString[i + 1] = QUOTE
         THEN SplitRecordsLoopPairToggles(csvString, i + 2,
                                          currentRecordStart, ~inQuotes, recs)
         ELSE LET q == IF csvString[i] = QUOTE THEN ~inQuotes ELSE inQuotes
              IN  IF csvString[i] = LF /\ ~q
                  THEN SplitRecordsLoopPairToggles(csvString, i + 1, i, q,
                         Append(recs, Substring(csvString, currentRecordStart,
                                                i - 1)))
                  ELSE SplitRecordsLoopPairToggles(csvString, i + 1,
                                                   currentRecordStart, q, recs)

\* (mutation of SplitRecordsLoop: a last record that ends inside an open
\* quoted span is left out)
RECURSIVE SplitRecordsLoopDropsOpenRemainder(_, _, _, _, _)
SplitRecordsLoopDropsOpenRemainder(csvString, i, currentRecordStart, inQuotes, recs) ==
    IF i > Len(csvString)
    THEN IF currentRecordStart < Len(csvString) /\ ~inQuotes
         THEN Append(recs, Substring(csvString, currentRecordStart,
                                     Len(csvString)))
         ELSE recs
    ELSE IF csvString[i] = QUOTE /\ i + 1 <= Len(csvString)
                                 /\ csvString[i + 1] = QUOTE
         THEN SplitRecordsLoopDropsOpenRemainder(csvString, i + 2,
                                                 currentRecordStart, inQuotes,
                                                 recs)
         ELSE LET q == IF csvString[i] = QUOTE THEN ~inQuotes ELSE inQuotes
              IN  IF csvString[i] = LF /\ ~q
                  THEN SplitRecordsLoopDropsOpenRemainder(csvString, i + 1, i, q,
                         Append(recs, Substring(csvString, currentRecordStart,
                                                i - 1)))
                  ELSE SplitRecordsLoopDropsOpenRemainder(csvString, i + 1,
                                                 currentRecordStart, q, recs)
\* the for loop of splitCsvToRecords from 1-based position i on;
\* currentRecordStart is kept 0-based as in the code
RECURSIVE SplitRecordsLoop(_, _, _, _, _)
SplitRecordsLoop(csvString, i, currentRecordStart, inQuotes, recs) ==
    IF i > Len(csvString)
    THEN IF currentRecordStart < Len(csvString)
         THEN Append(recs, Substring(csvString, currentRecordStart,
                                     Len(csvString)))
         ELSE recs
    ELSE IF csvString[i] = QUOTE /\ i + 1 <= Len(csvString)
                                 /\ csvString[i + 1] = QUOTE
         THEN SplitRecordsLoop(csvString, i + 2, currentRecordStart,
                               inQuotes, recs)
         ELSE LET q == IF csvString[i] = QUOTE THEN ~inQuotes ELSE inQuotes
              IN  IF csvString[i] = LF /\ ~q
                  THEN SplitRecordsLoop(csvString, i + 1, i, q,
                         Append(recs, Substring(csvString, currentRecordStart,
                                                i - 1)))
                  ELSE SplitRecordsLoop(csvString, i + 1, currentRecordStart,
                                        q, recs)

\* Array.prototype.filter(record => record.length > 0 && !/^\s*$/.test(record))
RECURSIVE FilterNonEmpty(_)
FilterNonEmpty(recs) ==
    IF recs = <<>> THEN <<>>
    ELSE IF Len(Head(recs)) > 0 /\ Trim(Head(recs)) # <<>>
         THEN <<Head(recs)>> \o FilterNonEmpty(Tail(recs))
         ELSE FilterNonEmpty(Tail(recs))

\* (mutation of SplitCsvToRecords: every line feed ends a record, quoted or
\* not)
RECURSIVE SplitAtEveryLineFeed(_, _)
SplitAtEveryLineFeed(csvString, current) ==
    IF csvString = <<>>
    THEN IF current = <<>> THEN <<>> ELSE <<current>>
    ELSE IF Head(csvString) = LF
    THEN <<current>> \o SplitAtEveryLineFeed(Tail(csvString), <<>>)
    ELSE SplitAtEveryLineFeed(Tail(csvString), Append(current, Head(csvString)))

SplitCsvToRecordsIgnoringQuotes(csvString) ==
    LET recs == SplitAtEveryLineFeed(csvString, <<>>)
    IN  FilterNonEmpty([k \in 1..Len(recs) |-> Trim(recs[k])])

\* (mutation of SplitCsvToRecords: the records are not trimmed)
SplitCsvToRecordsUntrimmed(csvString) ==
    FilterNonEmpty(SplitRecordsLoop(csvString, 1, 0, FALSE, <<>>))
\* (mutation of SplitCsvToRecords: the filter of line 100 is missing)
SplitCsvToRecordsUnfiltered(csvString) ==
    LET recs == SplitRecordsLoop(csvString, 1, 0, FALSE, <<>>)
    IN  [k \in 1..Len(recs) |-> Trim(recs[k])]
SplitCsvToRecords(csvString) ==
    LET recs == SplitRecordsLoop(csvString, 1, 0, FALSE, <<>>)
    IN  FilterNonEmpty([k \in 1..Len(recs) |-> Trim(recs[k])])

-----------------------------------------------------------------------------
(* String literals of parseQuizCsv                                         *)

K_newquestion == <<"n","e","w","q","u","e","s","t","i","o","n">>
K_id == <<"i","d">>
K_title == <<"t","i","t","l","e">>
K_questiontext == <<"q","u","e","s","t","i","o","n","t","e","x","t">>
K_points == <<"p","o","i","n","t","s">>
K_difficulty == <<"d","i","f","f","i","c","u","l","t","y">>
K_image == <<"i","m","a","g","e">>
K_hint == <<"h","i","n","t">>
K_feedback == <<"f","e","e","d","b","a","c","k">>
K_initialtext == <<"i","n","i","t","i","a","l","t","e","x","t">>
K_answerkey == <<"a","n","s","w","e","r","k","e","y">>
K_inputbox == <<"i","n","p","u","t","b","o","x">>
K_answer == <<"a","n","s","w","e","r">>
K_scoring == <<"s","c","o","r","i","n","g">>
K_choice == <<"c","h","o","i","c","e">>
K_match == <<"m","a","t","c","h">>
K_option == <<"o","p","t","i","o","n">>
K_true == <<"t","r","u","e">>
K_false == <<"f","a","l","s","e">>
K_item == <<"i","t","e","m">>

\* the case labels of the switch on typeOrKey
CaseLabels ==
    {K_id, K_title, K_questiontext, K_points, K_difficulty, K_image, K_hint,
     K_feedback, K_initialtext, K_answerkey, K_inputbox, K_answer, K_scoring,
     K_choice, K_match, K_option, K_true, K_false, K_item}

T_WR == <<"W","R">>
T_SA == <<"S","A">>
T_M == <<"M">>
T_MC == <<"M","C">>
T_TF == <<"T","F">>
T_MS == <<"M","S">>
T_O == <<"O">>

\* const knownTypes
knownTypes == <<T_WR, T_SA, T_M, T_MC, T_TF, T_MS, T_O>>

S_html == <<"h","t","m","l">>
S_regexp == <<"r","e","g","e","x","p">>
S_sensitive == <<"s","e","n","s","i","t","i","v","e">>
S_insensitive == <<"i","n","s","e","n","s","i","t","i","v","e">>


PH_OPEN == <<"[","C","h","o","i","c","e"," ">>
PH_CLOSE == <<" ","P","l","a","c","e","h","o","l","d","e","r","]">>

-----------------------------------------------------------------------------
(* Objects                                                                 *)

\* null
Null == <<>>

\* obj.field !== undefined
Has(obj, field) == field \in DOMAIN obj

\* obj.field = value
Put(obj, field, value) == (field :> value) @@ obj

\* field: value || undefined, in an object literal
PutIfNonEmpty(obj, field, value) ==
    IF value # <<>> THEN Put(obj, field, value) ELSE obj

\* the truthiness of a string-valued field: defined and not ''
Truthy(obj, field) == Has(obj, field) /\ obj[field] # <<>>

\* Array.prototype.includes
Includes(arr, x) == \E i \in 1..Len(arr) : arr[i] = x

\* the template literal ${n} of a non-negative integer
RECURSIVE NumberToString(_)
NumberToString(n) ==
    IF n < 10 THEN <<Digits[n + 1]>>
    ELSE Append(NumberToString(n \div 10), Digits[(n % 10) + 1])

\* (mutation of PlaceholderText: the placeholder pair gets an empty choice
\* text, as the pair a Choice row creates gets an empty match text)
PlaceholderEmpty(choiceNo) == <<>>

\* `[Choice ${choiceNo} Placeholder]`
PlaceholderText(choiceNo) ==
    PH_OPEN \o NumberToString(choiceNo) \o PH_CLOSE

\* one console call: its level, which message, and the record it names
\* (0 for the message of the end-of-input finalization, which names none)
Diag(level, msg, n) == [level |-> level, msg |-> msg, record |-> n]

-----------------------------------------------------------------------------
(* The switch on typeOrKey; each case gives the in-progress question after *)
(* the row and the console calls it made                                   *)

Result(q, out) == [q |-> q, out |-> out]

\* (mutation of SetLastFeedback: the first element is written, not the last)
SetFirstFeedback(arr, value) ==
    [arr EXCEPT ![1] = Put(@, "feedback", value)]

\* arr[arr.length - 1].feedback = value
SetLastFeedback(arr, value) ==
    [arr EXCEPT ![Len(arr)] = Put(@, "feedback", value)]

\* (mutation of FeedbackGoesToFalse: the comparison of the definedLines is
\* reversed)
FeedbackGoesToFalseReversed(q) ==
    /\ Has(q, "falseOption")
    /\ \/ ~Has(q, "trueOption")
       \/ q.falseOption.definedLine < q.trueOption.definedLine

\* the TF branch of case 'feedback': does the row go to falseOption?
FeedbackGoesToFalse(q) ==
    /\ Has(q, "falseOption")
    /\ \/ ~Has(q, "trueOption")
       \/ /\ q.falseOption.definedLine # 0
          /\ q.trueOption.definedLine # 0
          /\ q.falseOption.definedLine > q.trueOption.definedLine

\* (mutation of CaseFeedback: an element that already has feedback keeps it)
CaseFeedbackKeepsInline(q, value) ==
    LET keep(o) == IF Has(o, "feedback") THEN o ELSE Put(o, "feedback", value)
        keepLast(arr) == [arr EXCEPT ![Len(arr)] = keep(@)]
    IN  IF q.type = T_MC /\ Has(q, "options") /\ Len(q.options) > 0
        THEN Put(q, "options", keepLast(q.options))
        ELSE IF q.type = T_MS /\ Has(q, "options") /\ Len(q.options) > 0
        THEN Put(q, "options", keepLast(q.options))
        ELSE IF q.type = T_TF
        THEN IF FeedbackGoesToFalse(q)
             THEN Put(q, "falseOption", keep(q.falseOption))
             ELSE IF Has(q, "trueOption")
             THEN Put(q, "trueOption", keep(q.trueOption))
             ELSE Put(q, "feedback", value)
        ELSE IF q.type = T_O /\ Has(q, "items") /\ Len(q.items) > 0
        THEN Put(q, "items", keepLast(q.items))
        ELSE Put(q, "feedback", value)
\* (mutation of CaseFeedback: the TF branch lacks else if (tf.trueOption), so
\* a TF question with only its trueOption gets the general feedback)
CaseFeedbackSkipsTrueOption(q, value) ==
    IF q.type = T_MC /\ Has(q, "options") /\ Len(q.options) > 0
    THEN Put(q, "options", SetLastFeedback(q.options, value))
    ELSE IF q.type = T_MS /\ Has(q, "options") /\ Len(q.options) > 0
    THEN Put(q, "options", SetLastFeedback(q.options, value))
    ELSE IF q.type = T_TF /\ FeedbackGoesToFalse(q)
    THEN Put(q, "falseOption", Put(q.falseOption, "feedback", value))
    ELSE IF q.type = T_O /\ Has(q, "items") /\ Len(q.items) > 0
    THEN Put(q, "items", SetLastFeedback(q.items, value))
    ELSE Put(q, "feedback", value)
CaseFeedback(q, value) ==
    IF q.type = T_MC /\ Has(q, "options") /\ Len(q.options) > 0
    THEN Put(q, "options", SetLastFeedback(q.options, value))
    ELSE IF q.type = T_MS /\ Has(q, "options") /\ Len(q.options) > 0
    THEN Put(q, "options", SetLastFeedback(q.options, value))
    ELSE IF q.type = T_TF
    THEN IF FeedbackGoesToFalse(q)
         THEN Put(q, "falseOption", Put(q.falseOption, "feedback", value))
         ELSE IF Has(q, "trueOption")
         THEN Put(q, "trueOption", Put(q.trueOption, "feedback", value))
         ELSE Put(q, "feedback", value)
    ELSE IF q.type = T_O /\ Has(q, "items") /\ Len(q.items) > 0
    THEN Put(q, "items", SetLastFeedback(q.items, value))
    ELSE Put(q, "feedback", value)

CaseInputBox(q, value, value2) ==
    Put(q, "inputBox", [rows |-> SafeParseInt(value, 1),
                        cols |-> SafeParseInt(value2, 40)])

\* the evaluation mode of an Answer row's flag cell
Evaluation(value3) ==
    LET flag == ToLowerCase(value3)
    IN  IF flag = S_regexp THEN S_regexp
        ELSE IF flag = S_sensitive THEN S_sensitive ELSE S_insensitive

CaseAnswer(q, value2, value3, n) ==
    IF q.type = T_SA
    THEN Result(Put(Put(q, "bestAnswer", value2),
                    "evaluation", Evaluation(value3)), <<>>)
    ELSE Result(q, <<Diag("warn", "AnswerForNonSA", n)>>)

CaseScoring(q, value, n) ==
    IF q.type \in {T_M, T_MS, T_O}
    THEN Result(Put(q, "scoring", value), <<>>)
    ELSE Result(q, <<Diag("warn", "ScoringForIncompatibleType", n)>>)

\* if (!mq.pairs) mq.pairs = []
EnsurePairs(q) == IF Has(q, "pairs") THEN q ELSE Put(q, "pairs", <<>>)

\* (mutation of FindPair: find never finds a pair)
FindPairNever(pairs, choiceNo) == 0
\* mq.pairs.find(p => p.choiceNo === choiceNo): the index of the first such
\* pair, 0 when find returns undefined
FindPair(pairs, choiceNo) ==
    IF \E i \in 1..Len(pairs) : pairs[i].choiceNo = choiceNo
    THEN CHOOSE i \in 1..Len(pairs) :
            /\ pairs[i].choiceNo = choiceNo
            /\ \A j \in 1..(i - 1) : pairs[j].choiceNo # choiceNo
    ELSE 0

\* (mutation of CaseChoice: the pair is pushed without looking for an existing
\* pair of that number)
CaseChoiceAlwaysAppends(q, value, value2, n) ==
    IF q.type = T_M
    THEN LET mq == EnsurePairs(q)
             choiceNo == SafeParseInt(value, 0)
         IN  IF choiceNo <= 0
             THEN Result(mq, <<Diag("warn", "InvalidChoiceNumber", n)>>)
             ELSE Result(Put(mq, "pairs",
                             Append(mq.pairs, [choiceNo |-> choiceNo,
                                               choiceText |-> value2,
                                               matchText |-> <<>>])), <<>>)
    ELSE Result(q, <<Diag("warn", "ChoiceForNonMatching", n)>>)

CaseChoice(q, value, value2, n) ==
    IF q.type = T_M
    THEN LET mq == EnsurePairs(q)
             choiceNo == SafeParseInt(value, 0)
             at == FindPair(mq.pairs, choiceNo)
         IN  IF choiceNo <= 0
             THEN Result(mq, <<Diag("warn", "InvalidChoiceNumber", n)>>)
             ELSE IF at # 0
             THEN Result(Put(mq, "pairs",
                             [mq.pairs EXCEPT ![at].choiceText = value2]), <<>>)
             ELSE Result(Put(mq, "pairs",
                             Append(mq.pairs, [choiceNo |-> choiceNo,
                                               choiceText |-> value2,
                                               matchText |-> <<>>])), <<>>)
    ELSE Result(q, <<Diag("warn", "ChoiceForNonMatching", n)>>)

\* (mutation of CaseMatch: the test is choiceNo < 0, so the number 0 and every
\* cell that safeParseInt turns into 0 makes a pair)
CaseMatchAcceptsZero(q, value, value2, n) ==
    IF q.type = T_M
    THEN LET mq == EnsurePairs(q)
             choiceNo == SafeParseInt(value, 0)
             at == FindPair(mq.pairs, choiceNo)
         IN  IF choiceNo < 0
             THEN Result(mq, <<Diag("warn", "InvalidMatchNumber", n)>>)
             ELSE IF at # 0
             THEN Result(Put(mq, "pairs",
                             [mq.pairs EXCEPT ![at].matchText = value2]), <<>>)
             ELSE Result(Put(mq, "pairs",
                             Append(mq.pairs,
                                    [choiceNo |-> choiceNo,
                                     choiceText |-> PlaceholderText(choiceNo),
                                     matchText |-> value2])),
                         <<Diag("warn", "PlaceholderChoice", n)>>)
    ELSE Result(q, <<Diag("warn", "MatchForNonMatching", n)>>)
\* (mutation of CaseMatch: a Match row whose number has no pair yet is passed
\* over)
CaseMatchNeedsChoice(q, value, value2, n) ==
    IF q.type = T_M
    THEN LET mq == EnsurePairs(q)
             choiceNo == SafeParseInt(value, 0)
             at == FindPair(mq.pairs, choiceNo)
         IN  IF choiceNo <= 0
             THEN Result(mq, <<Diag("warn", "InvalidMatchNumber", n)>>)
             ELSE IF at # 0
             THEN Result(Put(mq, "pairs",
                             [mq.pairs EXCEPT ![at].matchText = value2]), <<>>)
             ELSE Result(mq, <<Diag("warn", "PlaceholderChoice", n)>>)
    ELSE Result(q, <<Diag("warn", "MatchForNonMatching", n)>>)
CaseMatch(q, value, value2, n) ==
    IF q.type = T_M
    THEN LET mq == EnsurePairs(q)
             choiceNo == SafeParseInt(value, 0)
             at == FindPair(mq.pairs, choiceNo)
         IN  IF choiceNo <= 0
             THEN Result(mq, <<Diag("warn", "InvalidMatchNumber", n)>>)
             ELSE IF at # 0
             THEN Result(Put(mq, "pairs",
                             [mq.pairs EXCEPT ![at].matchText = value2]), <<>>)
             ELSE Result(Put(mq, "pairs",
                             Append(mq.pairs,
                                    [choiceNo |-> choiceNo,
                                     choiceText |-> PlaceholderText(choiceNo),
                                     matchText |-> value2])),
                         <<Diag("warn", "PlaceholderChoice", n)>>)
    ELSE Result(q, <<Diag("warn", "MatchForNonMatching", n)>>)

\* (mutation of PushTo: the element is put at the head, unshift for push)
PushToHead(q, field, element) ==
    Put(q, field, <<element>> \o (IF Has(q, field) THEN q[field] ELSE <<>>))
\* if (!q.options) q.options = []; q.options.push(option)
PushTo(q, field, element) ==
    Put(q, field, Append(IF Has(q, field) THEN q[field] ELSE <<>>, element))

IsHtml(cell) == ToLowerCase(cell) = S_html

CaseOption(q, value, value2, value3, value4, value5, n) ==
    IF q.type = T_MC
    THEN Result(PushTo(q, "options",
                  PutIfNonEmpty([percent |-> SafeParseInt(value, 0),
                                 text |-> value2,
                                 htmlFlag |-> IsHtml(value3),
                                 feedbackHtmlFlag |-> IsHtml(value5)],
                                "feedback", value4)), <<>>)
    ELSE IF q.type = T_MS
    THEN Result(PushTo(q, "options",
                  PutIfNonEmpty([weight |-> SafeParseInt(value, 0),
                                 text |-> value2,
                                 htmlFlag |-> IsHtml(value3),
                                 feedbackHtmlFlag |-> IsHtml(value5)],
                                "feedback", value4)), <<>>)
    ELSE Result(q, <<Diag("warn", "OptionForIncompatibleType", n)>>)

\* the object literal of case 'true' / case 'false'
TFOption(isTrue, value, value2, value3, n) ==
    PutIfNonEmpty([isTrue |-> isTrue,
                   credit |-> SafeParseInt(value, 0),
                   htmlFlag |-> IsHtml(value3),
                   definedLine |-> n],
                  "feedback", value2)

\* (mutation of CaseTrue: the new option keeps the feedback of the one it
\* replaces when its own row has none)
CaseTrueKeepsFeedback(q, value, value2, value3, n) ==
    IF q.type = T_TF
    THEN LET new == TFOption(TRUE, value, value2, value3, n)
             kept == Has(q, "trueOption") /\ Has(q.trueOption, "feedback")
                     /\ ~Has(new, "feedback")
         IN  Result(Put(q, "trueOption",
                        IF kept THEN Put(new, "feedback", q.trueOption.feedback)
                        ELSE new), <<>>)
    ELSE Result(q, <<Diag("warn", "TrueForNonTF", n)>>)
CaseTrue(q, value, value2, value3, n) ==
    IF q.type = T_TF
    THEN Result(Put(q, "trueOption", TFOption(TRUE, value, value2, value3, n)),
                <<>>)
    ELSE Result(q, <<Diag("warn", "TrueForNonTF", n)>>)

CaseFalse(q, value, value2, value3, n) ==
    IF q.type = T_TF
    THEN Result(Put(q, "falseOption",
                    TFOption(FALSE, value, value2, value3, n)), <<>>)
    ELSE Result(q, <<Diag("warn", "FalseForNonTF", n)>>)

CaseItem(q, value, value2, value3, value5, n) ==
    IF q.type = T_O
    THEN Result(PushTo(q, "items",
                  PutIfNonEmpty([text |-> value,
                                 htmlFlag |-> IsHtml(value2),
                                 feedbackHtmlFlag |-> IsHtml(value5)],
                                "feedback", value3)), <<>>)
    ELSE Result(q, <<Diag("warn", "ItemForNonOrdering", n)>>)

\* default: the key is logged unless it is empty
CaseDefault(q, typeOrKey, n) ==
    IF typeOrKey # <<>> /\ Trim(typeOrKey) # <<>>
    THEN Result(q, <<Diag("log", "UnrecognizedKey", n)>>)
    ELSE Result(q, <<>>)

\* switch (typeOrKey) on the in-progress question q at record n.  No case
\* can throw (every cell is a string, every indexed element exists), so the
\* catch clause of the surrounding try is never entered.
Switch(q, typeOrKey, row, n) ==
    LET value  == GetValue(row, 1)
        value2 == GetValue(row, 2)
        value3 == GetValue(row, 3)
        value4 == GetValue(row, 4)
        value5 == GetValue(row, 5)
    IN  CASE typeOrKey = K_id -> Result(Put(q, "id", value), <<>>)
          [] typeOrKey = K_title -> Result(Put(q, "title", value), <<>>)
          [] typeOrKey = K_questiontext ->
                Result(Put(q, "questionText", value), <<>>)
          [] typeOrKey = K_points ->
                Result(Put(q, "points", SafeParseInt(value, 1)), <<>>)
          [] typeOrKey = K_difficulty ->
                Result(Put(q, "difficulty", SafeParseInt(value, 0)), <<>>)
          [] typeOrKey = K_image -> Result(Put(q, "image", value), <<>>)
          [] typeOrKey = K_hint -> Result(Put(q, "hint", value), <<>>)
          [] typeOrKey = K_feedback -> Result(CaseFeedback(q, value), <<>>)
          [] typeOrKey = K_initialtext ->
                Result(Put(q, "initialText", value), <<>>)
          [] typeOrKey = K_answerkey ->
                Result(Put(q, "answerKey", value), <<>>)
          [] typeOrKey = K_inputbox ->
                Result(CaseInputBox(q, value, value2), <<>>)
          [] typeOrKey = K_answer -> CaseAnswer(q, value2, value3, n)
          [] typeOrKey = K_scoring -> CaseScoring(q, value, n)
          [] typeOrKey = K_choice -> CaseChoice(q, value, value2, n)
          [] typeOrKey = K_match -> CaseMatch(q, value, value2, n)
          [] typeOrKey = K_option ->
                CaseOption(q, value, value2, value3, value4, value5, n)
          [] typeOrKey = K_true -> CaseTrue(q, value, value2, value3, n)
          [] typeOrKey = K_false -> CaseFalse(q, value, value2, value3, n)
          [] typeOrKey = K_item ->
                CaseItem(q, value, value2, value3, value5, n)
          [] OTHER -> CaseDefault(q, typeOrKey, n)

-----------------------------------------------------------------------------
(* parseQuizCsv: the loop over the records and the final validation        *)

\* the condition of lines 126 and 355: type, title, questionText truthy and
\* points defined
HasRequiredFields(q) ==
    /\ Truthy(q, "type")
    /\ Truthy(q, "title")
    /\ Truthy(q, "questionText")
    /\ Has(q, "points")

\* (mutation of SomePairIncomplete: the two negations are lost)
SomePairHasText(pairs) ==
    \E i \in 1..Len(pairs) :
        pairs[i].choiceText # <<>> \/ pairs[i].matchText # <<>>

\* pairs.some(p => !p.choiceText || !p.matchText)
SomePairIncomplete(pairs) ==
    \E i \in 1..Len(pairs) :
        pairs[i].choiceText = <<>> \/ pairs[i].matchText = <<>>

\* (mutation of MissingOrEmpty: an off-by-one on the length)
MissingOrAtMostOne(q, field) == ~Has(q, field) \/ Len(q[field]) <= 1

\* !q.field || q.field.length === 0
MissingOrEmpty(q, field) == ~Has(q, field) \/ Len(q[field]) = 0

\* the if / else-if chain of the end-of-input validation: the skipReason it
\* sets, "" when isValid stays true
SkipReason(q) ==
    IF ~HasRequiredFields(q) THEN "MissingRequiredFields"
    ELSE IF q.type = T_M /\ (MissingOrEmpty(q, "pairs")
                             \/ SomePairIncomplete(q.pairs))
    THEN "MatchingNoPairsOrIncomplete"
    ELSE IF q.type = T_MC /\ MissingOrEmpty(q, "options")
    THEN "MultipleChoiceNoOptions"
    ELSE IF q.type = T_TF /\ (~Has(q, "trueOption") \/ ~Has(q, "falseOption"))
    THEN "TrueFalseLacksOption"
    ELSE IF q.type = T_MS /\ MissingOrEmpty(q, "options")
    THEN "MultiSelectNoOptions"
    ELSE IF q.type = T_O /\ MissingOrEmpty(q, "items")
    THEN "OrderingNoItems"
    ELSE IF q.type = T_SA /\ ~Has(q, "bestAnswer")
    THEN "ShortAnswerNoBestAnswer"
    ELSE ""

\* (mutation of PushedMidStream: the title is not looked at)
PushedMidStreamNoTitle(q) ==
    Truthy(q, "type") /\ Truthy(q, "questionText") /\ Has(q, "points")

\* the decision of the newquestion branch about the question built so far:
\* is it pushed?
PushedMidStream(q) == HasRequiredFields(q)

\* the decision of the end-of-input block: is the last question pushed?
PushedAtEnd(q) == SkipReason(q) = ""

\* currentQuestion = { type: questionTypeCode, points: 1 }
FreshQuestion(questionTypeCode) == [type |-> questionTypeCode, points |-> 1]

\* the state of parseQuizCsv before the first record
StartState ==
    [questions |-> <<>>, currentQuestion |-> Null, currentLineNumber |-> 0,
     console |-> <<>>]

\* (mutation of Entry: questions is a module-level array that outlives the
\* call)
EntryKeepsQuestions(st) ==
    [st EXCEPT !.currentQuestion = Null, !.currentLineNumber = 0]

\* the state of a call of parseQuizCsv before its first record, entered
\* when an earlier call left st: the locals are created anew, the console
\* is the one global of the environment
Entry(st) == [StartState EXCEPT !.console = st.console]

\* (mutation of NewQuestionBranch: currentQuestion = null is forgotten for an
\* unknown type code)
NewQuestionBranchKeepsCurrent(st, value, n) ==
    LET cur == st.currentQuestion
        pushed == cur # Null /\ HasRequiredFields(cur)
        known == Includes(knownTypes, value)
    IN  [questions |-> IF pushed THEN Append(st.questions, cur)
                       ELSE st.questions,
         currentQuestion |-> IF known THEN [type |-> value, points |-> 1]
                             ELSE cur,
         currentLineNumber |-> n,
         console |-> st.console
                     \o (IF cur # Null /\ ~pushed
                         THEN <<Diag("warn", "SkippingIncompleteQuestion", n)>>
                         ELSE <<>>)
                     \o (IF known THEN <<>>
                         ELSE <<Diag("warn", "UnknownType", n)>>)]

\* (mutation of NewQuestionBranch: the object of the question before is used
\* again for the new question, with its type and points set anew)
NewQuestionBranchReusesObject(st, value, n) ==
    LET cur == st.currentQuestion
        pushed == cur # Null /\ HasRequiredFields(cur)
        known == Includes(knownTypes, value)
    IN  [questions |-> IF pushed THEN Append(st.questions, cur)
                       ELSE st.questions,
         currentQuestion |-> IF ~known THEN Null
                             ELSE IF cur = Null THEN [type |-> value, points |-> 1]
                             ELSE [cur EXCEPT !.type = value, !.points = 1],
         currentLineNumber |-> n,
         console |-> st.console
                     \o (IF cur # Null /\ ~pushed
                         THEN <<Diag("warn", "SkippingIncompleteQuestion", n)>>
                         ELSE <<>>)
                     \o (IF known THEN <<>>
                         ELSE <<Diag("warn", "UnknownType", n)>>)]
\* (mutation of NewQuestionBranch: the type code is looked at first, and an
\* unknown one discards the question in progress without finalizing it)
NewQuestionBranchChecksTypeFirst(st, value, n) ==
    LET cur == st.currentQuestion
        known == Includes(knownTypes, value)
        pushed == known /\ cur # Null /\ HasRequiredFields(cur)
    IN  [questions |-> IF pushed THEN Append(st.questions, cur)
                       ELSE st.questions,
         currentQuestion |-> IF known THEN [type |-> value, points |-> 1]
                             ELSE Null,
         currentLineNumber |-> n,
         console |-> st.console
                     \o (IF known /\ cur # Null /\ ~pushed
                         THEN <<Diag("warn", "SkippingIncompleteQuestion", n)>>
                         ELSE <<>>)
                     \o (IF known THEN <<>>
                         ELSE <<Diag("warn", "UnknownType", n)>>)]
\* the branch typeOrKey === 'newquestion' at record n.  The pushed object is
\* never written again: currentQuestion is rebound to a new object or to null
\* before the branch ends.
NewQuestionBranch(st, value, n) ==
    LET cur == st.currentQuestion
        pushed == cur # Null /\ PushedMidStream(cur)
        qs == IF pushed THEN Append(st.questions, cur) ELSE st.questions
        out1 == IF cur # Null /\ ~pushed
                THEN <<Diag("warn", "SkippingIncompleteQuestion", n)>>
                ELSE <<>>
        known == Includes(knownTypes, value)
        out2 == IF known THEN <<>> ELSE <<Diag("warn", "UnknownType", n)>>
    IN  [questions |-> qs,
         currentQuestion |-> IF known THEN FreshQuestion(value) ELSE Null,
         currentLineNumber |-> n,
         console |-> st.console \o out1 \o out2]

\* (mutation of TypeOrKey: toLowerCase() is missing)
TypeOrKeyAsWritten(row) == GetValue(row, 0)
\* const typeOrKey = getValue(row, 0, '').toLowerCase()
TypeOrKey(row) == ToLowerCase(GetValue(row, 0))

\* (mutation of LoopBody: a row that arrives with no question in progress
\* opens a WR question instead of being passed over)
LoopBodyOpensQuestion(st, row) ==
    LET n == st.currentLineNumber + 1
    IN  IF TypeOrKey(row) = K_newquestion
        THEN NewQuestionBranch(st, GetValue(row, 1), n)
        ELSE LET cur == IF st.currentQuestion = Null
                        THEN FreshQuestion(T_WR) ELSE st.currentQuestion
                 r == Switch(cur, TypeOrKey(row), row, n)
             IN  [questions |-> st.questions,
                  currentQuestion |-> r.q,
                  currentLineNumber |-> n,
                  console |-> st.console \o r.out]

\* one iteration of for (const rawRecord of records), on the tokenized row
LoopBody(st, row) ==
    LET n == st.currentLineNumber + 1
    IN  IF TypeOrKey(row) = K_newquestion
        THEN NewQuestionBranch(st, GetValue(row, 1), n)
        ELSE IF st.currentQuestion = Null
        THEN [st EXCEPT !.currentLineNumber = n]
        ELSE LET r == Switch(st.currentQuestion, TypeOrKey(row), row, n)
             IN  [questions |-> st.questions,
                  currentQuestion |-> r.q,
                  currentLineNumber |-> n,
                  console |-> st.console \o r.out]

\* (mutation of AfterLoop: the else branch with the console.warn is missing)
AfterLoopSilent(st) ==
    LET cur == st.currentQuestion
    IN  IF cur # Null /\ PushedAtEnd(cur)
        THEN [st EXCEPT !.questions = Append(st.questions, cur)]
        ELSE st

\* (mutation of AfterLoop: the last question is put at the head of questions,
\* unshift for push)
AfterLoopUnshifts(st) ==
    LET cur == st.currentQuestion
    IN  IF cur = Null THEN st
        ELSE IF PushedAtEnd(cur)
        THEN [st EXCEPT !.questions = <<cur>> \o st.questions]
        ELSE [st EXCEPT !.console =
                 Append(st.console, Diag("warn", SkipReason(cur), 0))]

\* the block after the loop: if (currentQuestion) { validate; push or warn }
AfterLoop(st) ==
    LET cur == st.currentQuestion
    IN  IF cur = Null THEN st
        ELSE IF PushedAtEnd(cur)
        THEN [st EXCEPT !.questions = Append(st.questions, cur)]
        ELSE [st EXCEPT !.console =
                 Append(st.console, Diag("warn", SkipReason(cur), 0))]

\* the loop over a whole sequence of tokenized rows
RECURSIVE RunLoop(_, _)
RunLoop(st, rows) ==
    IF rows = <<>> THEN st ELSE RunLoop(LoopBody(st, Head(rows)), Tail(rows))

\* parseQuizCsv on already tokenized rows: the Quiz's questions
ParseRows(rows) == AfterLoop(RunLoop(StartState, rows)).questions

\* parseQuizCsv(csvContent).questions
ParseQuizCsv(buffer) ==
    LET recs == SplitCsvToRecords(buffer)
    IN  ParseRows([k \in 1..Len(recs) |-> SplitCsvRow(recs[k])])

-----------------------------------------------------------------------------
(* The page before any file is dropped                                     *)

\* useState<Quiz | null>(null), useState<string | null>(null),
\* useState<boolean>(false), useState<string | null>(null)
HomeInit ==
    [quiz |-> Null, fileName |-> Null, isLoading |-> FALSE, error |-> Null]

\* useState<File | null>(null), useState<string | null>(null),
\* useState<number>(0)
FileUploadInit == [uploadedFile |-> Null, error |-> Null, progress |-> 0]

\* nothing dropped, no FileReader reading, no timer set, no callback made
EventLoopInit ==
    [drops |-> <<>>, reading |-> {}, timers |-> <<>>, calls |-> <<>>]

UIInit ==
    /\ home = HomeInit
    /\ fileUpload = FileUploadInit
    /\ eventLoop = EventLoopInit

-----------------------------------------------------------------------------
(* The state machine                                                       *)

State ==
    [questions |-> questions, currentQuestion |-> currentQuestion,
     currentLineNumber |-> currentLineNumber, console |-> console]

\* the variables of the parse take the values of st
Becomes(st) ==
    /\ questions' = st.questions
    /\ currentQuestion' = st.currentQuestion
    /\ currentLineNumber' = st.currentLineNumber
    /\ console' = st.console

\* the loop takes the tokenized row as its next record
Consume(row) ==
    /\ pc = "loop"
    /\ records' = Append(records, row)
    /\ Becomes(LoopBody(State, row))
    /\ pc' = "loop"

-----------------------------------------------------------------------------
(* Input rows.  The row keys are spelled as the exporting tool writes them *)
(* (spec section 6); the cell texts are short stand-ins.                   *)

IN_NewQuestion == <<"N","e","w","Q","u","e","s","t","i","o","n">>
IN_ID == <<"I","D">>
IN_Title == <<"T","i","t","l","e">>
IN_QuestionText == <<"Q","u","e","s","t","i","o","n","T","e","x","t">>
IN_Points == <<"P","o","i","n","t","s">>
IN_Difficulty == <<"D","i","f","f","i","c","u","l","t","y">>
IN_Image == <<"I","m","a","g","e">>
IN_Hint == <<"H","i","n","t">>
IN_Feedback == <<"F","e","e","d","b","a","c","k">>
IN_InitialText == <<"I","n","i","t","i","a","l","T","e","x","t">>
IN_AnswerKey == <<"A","n","s","w","e","r","K","e","y">>
IN_InputBox == <<"I","n","p","u","t","B","o","x">>
IN_Answer == <<"A","n","s","w","e","r">>
IN_Scoring == <<"S","c","o","r","i","n","g">>
IN_Choice == <<"C","h","o","i","c","e">>
IN_Match == <<"M","a","t","c","h">>
IN_Option == <<"O","p","t","i","o","n">>
IN_True == <<"T","r","u","e">>
IN_False == <<"F","a","l","s","e">>
IN_Item == <<"I","t","e","m">>

IN_ZZ == <<"Z","Z">>
IN_mc == <<"m","c">>
IN_Quiz == <<"Q","u","i","z">>

\* The loop takes as its next record a row of rows whose lower-cased key is
\* in keys.  When the input is left open (no buffer was split) rows is an
\* alphabet and the input is any sequence of at most bound of its rows; when
\* a buffer was split, rows holds the tokenized head of pending.
Take(rows, bound, keys) ==
    /\ Len(records) < bound
    /\ \E row \in rows :
        /\ TypeOrKey(row) \in keys
        /\ Consume(row)
    /\ pending' = IF pending = <<>> THEN pending ELSE Tail(pending)
    /\ UNCHANGED csvContent
    /\ UNCHANGED ui

\* the keys of all rows that are not newquestion rows
OtherKeys(rows) == {TypeOrKey(row) : row \in rows} \ {K_newquestion}

\* One action per branch of the loop body: the newquestion branch, the early
\* continue while no question is being built, and each case of the switch.
NewQuestionRow(rows, bound) ==
    /\ pc = "loop"
    /\ Take(rows, bound, {K_newquestion})

IgnoredRow(rows, bound) ==
    /\ currentQuestion = Null
    /\ Take(rows, bound, OtherKeys(rows))

IdRow(rows, bound) ==
    /\ currentQuestion # Null
    /\ Take(rows, bound, {K_id})

TitleRow(rows, bound) ==
    /\ currentQuestion # Null
    /\ Take(rows, bound, {K_title})

QuestionTextRow(rows, bound) ==
    /\ currentQuestion # Null
    /\ Take(rows, bound, {K_questiontext})

PointsRow(rows, bound) ==
    /\ currentQuestion # Null
    /\ Take(rows, bound, {K_points})

DifficultyRow(rows, bound) ==
    /\ currentQuestion # Null
    /\ Take(rows, bound, {K_difficulty})

ImageRow(rows, bound) ==
    /\ currentQuestion # Null
    /\ Take(rows, bound, {K_image})

HintRow(rows, bound) ==
    /\ currentQuestion # Null
    /\ Take(rows, bound, {K_hint})

FeedbackRow(rows, bound) ==
    /\ currentQuestion # Null
    /\ Take(rows, bound, {K_feedback})

InitialTextRow(rows, bound) ==
    /\ currentQuestion # Null
    /\ Take(rows, bound, {K_initialtext})

AnswerKeyRow(rows, bound) ==
    /\ currentQuestion # Null
    /\ Take(rows, bound, {K_answerkey})

InputBoxRow(rows, bound) ==
    /\ currentQuestion # Null
    /\ Take(rows, bound, {K_inputbox})

AnswerRow(rows, bound) ==
    /\ currentQuestion # Null
    /\ Take(rows, bound, {K_answer})

ScoringRow(rows, bound) ==
    /\ currentQuestion # Null
    /\ Take(rows, bound, {K_scoring})

ChoiceRow(rows, bound) ==
    /\ currentQuestion # Null
    /\ Take(rows, bound, {K_choice})

MatchRow(rows, bound) ==
    /\ currentQuestion # Null
    /\ Take(rows, bound, {K_match})

OptionRow(rows, bound) ==
    /\ currentQuestion # Null
    /\ Take(rows, bound, {K_option})

TrueRow(rows, bound) ==
    /\ currentQuestion # Null
    /\ Take(rows, bound, {K_true})

FalseRow(rows, bound) ==
    /\ currentQuestion # Null
    /\ Take(rows, bound, {K_false})

ItemRow(rows, bound) ==
    /\ currentQuestion # Null
    /\ Take(rows, bound, {K_item})

DefaultRow(rows, bound) ==
    /\ currentQuestion # Null
    /\ Take(rows, bound, OtherKeys(rows) \ CaseLabels)

\* the loop ends and the block after it runs; parseQuizCsv returns
EndOfInput ==
    /\ pc = "loop"
    /\ pending = <<>>
    /\ Becomes(AfterLoop(State))
    /\ pc' = "done"
    /\ UNCHANGED <<csvContent, pending, records>>
    /\ UNCHANGED ui

\* parseQuizCsv is entered with its records still to be chosen
InitRows ==
    /\ csvContent = <<>>
    /\ pending = <<>>
    /\ records = <<>>
    /\ questions = <<>>
    /\ currentQuestion = Null
    /\ currentLineNumber = 0
    /\ console = <<>>
    /\ pc = "loop"
    /\ UIInit

-----------------------------------------------------------------------------
(* Spec: blocks of every type with the base rows                           *)

TXT_A == <<"A">>
TXT_B == <<"B">>

MaxRecords == 4

BaseRows ==
    {<<IN_NewQuestion, t>> : t \in {T_WR, T_SA, T_M, T_MC, T_TF, T_MS, T_O,
                                    IN_ZZ}}
    \cup {<<IN_Title, TXT_A>>, <<IN_Title>>, <<IN_QuestionText, TXT_B>>,
          <<IN_Answer, <<"1","0","0">>, TXT_A>>}

Init == InitRows

Next ==
    \/ NewQuestionRow(BaseRows, MaxRecords)
    \/ IgnoredRow(BaseRows, MaxRecords)
    \/ TitleRow(BaseRows, MaxRecords)
    \/ QuestionTextRow(BaseRows, MaxRecords)
    \/ AnswerRow(BaseRows, MaxRecords)
    \/ EndOfInput

Spec == Init /\ [][Next]_vars

-----------------------------------------------------------------------------
(* Properties of the Quiz under Spec                                       *)

\* the rows of a given lower-cased key among rows
RowsOfKey(rows, key) ==
    {i \in 1..Len(rows) : TypeOrKey(rows[i]) = key}

\* C1: every Question of the Quiz has a known type code, a non-empty title,
\* a non-empty questionText and a defined points value, whether it was pushed
\* by a following NewQuestion row or at end of input.
C1_RequiredFields ==
    \A i \in 1..Len(questions) :
        /\ Has(questions[i], "type")
        /\ Includes(knownTypes, questions[i].type)
        /\ Has(questions[i], "title") /\ questions[i].title # <<>>
        /\ Has(questions[i], "questionText")
        /\ questions[i].questionText # <<>>
        /\ Has(questions[i], "points")

\* a parse has returned whose Quiz holds a question pushed by the NewQuestion
\* row that was its last record
C1_Witness ==
    /\ pc = "done"
    /\ Len(questions) = 1
    /\ records # <<>>
    /\ TypeOrKey(records[Len(records)]) = K_newquestion
    /\ questions[1].title = TXT_A

\* the completeness rule of a question's type, as the end-of-input
\* validation states it per type
TypeRuleHolds(q) ==
    /\ q.type = T_M =>
          /\ Has(q, "pairs")
          /\ \E i \in 1..Len(q.pairs) :
                q.pairs[i].choiceText # <<>> /\ q.pairs[i].matchText # <<>>
    /\ q.type \in {T_MC, T_MS} => Has(q, "options") /\ Len(q.options) >= 1
    /\ q.type = T_TF => Has(q, "trueOption") /\ Has(q, "falseOption")
    /\ q.type = T_O => Has(q, "items") /\ Len(q.items) >= 1
    /\ q.type = T_SA => Has(q, "bestAnswer")

\* C2: every Question of the Quiz satisfies its type's completeness rule,
\* whether it was pushed mid-stream or at end of input.
C2_TypeCompleteness ==
    \A i \in 1..Len(questions) : TypeRuleHolds(questions[i])

\* C10: every SA question of the Quiz has an input box and an evaluation
\* mode; with no InputBox row the box is 1 x 40, and with no evaluation flag
\* the mode is insensitive.
C10_ShortAnswerDefaults ==
    \A i \in 1..Len(questions) :
        questions[i].type = T_SA =>
            /\ Has(questions[i], "inputBox")
            /\ Has(questions[i], "evaluation")
            /\ RowsOfKey(records, K_inputbox) = {} =>
                  questions[i].inputBox = [rows |-> 1, cols |-> 40]
            /\ (\A k \in RowsOfKey(records, K_answer) :
                    GetValue(records[k], 3) = <<>>) =>
                  questions[i].evaluation = S_insensitive

-----------------------------------------------------------------------------
(* SpecMin: one block of any type, with title, text and the rows of its    *)
(* type (spec section 8, first property)                                   *)

TXT_X == <<"X">>
NUM_0 == <<"0">>
NUM_1 == <<"1">>
NUM_100 == <<"1","0","0">>

MaxMinRecords == 6

\* the rows that give a block of type t its content
ContentRows(t) ==
    IF t = T_SA THEN {<<IN_Answer, NUM_100, TXT_A>>, <<IN_Answer>>}
    ELSE IF t = T_M THEN {<<IN_Choice, NUM_1, TXT_A>>, <<IN_Match, NUM_1, TXT_X>>,
                          <<IN_Choice, NUM_0, TXT_A>>, <<IN_Match, NUM_0, TXT_X>>}
    ELSE IF t = T_MC THEN {<<IN_Option, NUM_100, TXT_A>>}
    ELSE IF t = T_MS THEN {<<IN_Option, NUM_1, TXT_A>>}
    ELSE IF t = T_TF THEN {<<IN_True, NUM_100>>, <<IN_False, NUM_0>>}
    ELSE IF t = T_O THEN {<<IN_Item, TXT_A>>}
    ELSE {}

\* the rows that may come next: a NewQuestion row of a known type first, then
\* Title, QuestionText and the content rows of that type
MinRows ==
    IF records = <<>>
    THEN {<<IN_NewQuestion, knownTypes[i]>> : i \in 1..Len(knownTypes)}
    ELSE IF currentQuestion = Null THEN {}
    ELSE {<<IN_Title, TXT_A>>, <<IN_QuestionText, TXT_B>>}
         \cup ContentRows(currentQuestion.type)

NextMin ==
    \/ NewQuestionRow(MinRows, MaxMinRecords)
    \/ TitleRow(MinRows, MaxMinRecords)
    \/ QuestionTextRow(MinRows, MaxMinRecords)
    \/ AnswerRow(MinRows, MaxMinRecords)
    \/ ChoiceRow(MinRows, MaxMinRecords)
    \/ MatchRow(MinRows, MaxMinRecords)
    \/ OptionRow(MinRows, MaxMinRecords)
    \/ TrueRow(MinRows, MaxMinRecords)
    \/ FalseRow(MinRows, MaxMinRecords)
    \/ ItemRow(MinRows, MaxMinRecords)
    \/ EndOfInput

SpecMin == InitRows /\ [][NextMin]_vars

\* the number of rows of a key among rows
CountKey(rows, key) == Cardinality(RowsOfKey(rows, key))

\* the console messages that report a dropped question
DropMessages ==
    {"SkippingIncompleteQuestion", "MissingRequiredFields",
     "MatchingNoPairsOrIncomplete", "MultipleChoiceNoOptions",
     "TrueFalseLacksOption", "MultiSelectNoOptions", "OrderingNoItems",
     "ShortAnswerNoBestAnswer"}

NoDropDiagnostic ==
    \A i \in 1..Len(console) : console[i].msg \notin DropMessages

\* rows holds, after its NewQuestion row of type t, Title and QuestionText
\* rows and exactly the minimum content rows of t; for M the one Choice and
\* the one Match row name the same number, which is positive if positiveOnly
MinimumInput(rows, t, positiveOnly) ==
    /\ Len(rows) >= 1
    /\ rows[1] = <<IN_NewQuestion, t>>
    /\ CountKey(rows, K_title) >= 1
    /\ CountKey(rows, K_questiontext) >= 1
    /\ t = T_SA => CountKey(rows, K_answer) = 1
    /\ t = T_M =>
          /\ CountKey(rows, K_choice) = 1
          /\ CountKey(rows, K_match) = 1
          /\ \A i \in RowsOfKey(rows, K_choice) :
                \A j \in RowsOfKey(rows, K_match) :
                    /\ GetValue(rows[i], 1) = GetValue(rows[j], 1)
                    /\ positiveOnly => SafeParseInt(GetValue(rows[i], 1), 0) > 0
    /\ t \in {T_MC, T_MS} => CountKey(rows, K_option) = 1
    /\ t = T_TF => CountKey(rows, K_true) = 1 /\ CountKey(rows, K_false) = 1
    /\ t = T_O => CountKey(rows, K_item) = 1

\* the parse of a minimum input of type t returned exactly one Question, of
\* type t, and no dropped-question diagnostic
OneQuestionOfType(t) ==
    /\ Len(questions) = 1
    /\ questions[1].type = t
    /\ HasRequiredFields(questions[1])
    /\ TypeRuleHolds(questions[1])
    /\ NoDropDiagnostic

\* C9 as stated: for each type, a minimum input (for M: a Choice and a Match
\* row for the same number, whatever the number) yields exactly one Question
\* of that type and no dropped-question diagnostic.
C9_MinimumInputAnyNumber ==
    pc = "done" =>
        \A i \in 1..Len(knownTypes) :
            MinimumInput(records, knownTypes[i], FALSE) =>
                OneQuestionOfType(knownTypes[i])

\* C9 amended: the same, where the number of the M block's Choice and Match
\* row is a positive integer.
C9_MinimumInput ==
    pc = "done" =>
        \A i \in 1..Len(knownTypes) :
            MinimumInput(records, knownTypes[i], TRUE) =>
                OneQuestionOfType(knownTypes[i])

\* the parse of a minimum Matching input has returned its one question
C9_Witness ==
    /\ pc = "done"
    /\ MinimumInput(records, T_M, TRUE)
    /\ Len(questions) = 1
    /\ Len(questions[1].pairs) = 1

-----------------------------------------------------------------------------
(* SpecUnknown: blocks of an unknown type code between True/False blocks   *)

MaxUnknownRecords == 6

UnknownRows ==
    {<<IN_NewQuestion, T_TF>>, <<IN_NewQuestion, IN_ZZ>>, <<IN_Title, TXT_A>>,
     <<IN_QuestionText, TXT_B>>, <<IN_True, NUM_100>>}

NextUnknown ==
    \/ NewQuestionRow(UnknownRows, MaxUnknownRecords)
    \/ IgnoredRow(UnknownRows, MaxUnknownRecords)
    \/ TitleRow(UnknownRows, MaxUnknownRecords)
    \/ QuestionTextRow(UnknownRows, MaxUnknownRecords)
    \/ TrueRow(UnknownRows, MaxUnknownRecords)
    \/ EndOfInput

SpecUnknown == InitRows /\ [][NextUnknown]_vars

IsNewQuestionRow(row) == TypeOrKey(row) = K_newquestion

IsUnknownNewQuestionRow(row) ==
    IsNewQuestionRow(row) /\ ~Includes(knownTypes, GetValue(row, 1))

\* rows without its unknown-type blocks: each NewQuestion row of an unknown
\* type code and the rows after it up to the next NewQuestion row
RECURSIVE WithoutUnknownBlocks(_, _)
WithoutUnknownBlocks(rows, inUnknown) ==
    IF rows = <<>> THEN <<>>
    ELSE IF IsNewQuestionRow(Head(rows))
    THEN IF IsUnknownNewQuestionRow(Head(rows))
         THEN WithoutUnknownBlocks(Tail(rows), TRUE)
         ELSE <<Head(rows)>> \o WithoutUnknownBlocks(Tail(rows), FALSE)
    ELSE IF inUnknown
    THEN WithoutUnknownBlocks(Tail(rows), TRUE)
    ELSE <<Head(rows)>> \o WithoutUnknownBlocks(Tail(rows), FALSE)

\* the index of the last NewQuestion row of rows, 0 if there is none
LastNewQuestion(rows) ==
    IF RowsOfKey(rows, K_newquestion) = {} THEN 0
    ELSE CHOOSE i \in RowsOfKey(rows, K_newquestion) :
            \A j \in RowsOfKey(rows, K_newquestion) : j <= i

\* a TF option / a question / a list of questions with the definedLine of
\* the TF options left out
OptionSansLine(o) == [f \in DOMAIN o \ {"definedLine"} |-> o[f]]

QuestionSansLine(q) ==
    [f \in DOMAIN q |->
        IF f \in {"trueOption", "falseOption"} THEN OptionSansLine(q[f])
        ELSE q[f]]

QuestionsSansLine(qs) == [i \in 1..Len(qs) |-> QuestionSansLine(qs[i])]

\* while records ends inside an unknown-type block: no question is being
\* built, the block's NewQuestion row was reported, and the block has added
\* no Question to those pushed up to and at its NewQuestion row
UnknownBlockDiscarded ==
    LET k == LastNewQuestion(records)
    IN  (pc = "loop" /\ k > 0 /\ IsUnknownNewQuestionRow(records[k])) =>
            /\ currentQuestion = Null
            /\ \E i \in 1..Len(console) :
                  console[i] = Diag("warn", "UnknownType", k)
            /\ Len(questions) <= Cardinality(
                  {j \in RowsOfKey(records, K_newquestion) :
                      j < k /\ ~IsUnknownNewQuestionRow(records[j])})
            /\ questions =
                  RunLoop(StartState, SubSeq(records, 1, k)).questions

\* C3 as stated: an unknown-type NewQuestion row adds no Question, is
\* reported, and leaves no question being built, so its rows are ignored; a
\* later valid block is parsed exactly as if the unknown-type block were
\* absent: while a valid block is being built, and when the parse returns
\* after one, the question being built and the questions pushed equal those
\* of the input without the unknown-type blocks.
C3_UnknownBlockAbsentExactly ==
    LET without == RunLoop(StartState, WithoutUnknownBlocks(records, FALSE))
    IN  /\ UnknownBlockDiscarded
        /\ (pc = "loop" /\ currentQuestion # Null) =>
              /\ currentQuestion = without.currentQuestion
              /\ questions = without.questions
        /\ (pc = "done" /\ LastNewQuestion(records) > 0
              /\ ~IsUnknownNewQuestionRow(records[LastNewQuestion(records)])) =>
              questions = AfterLoop(without).questions

\* C3 amended: the same, except that the definedLine of the TF options of
\* the later block is its record number in the input as given, so it counts
\* the records of the unknown-type block.
C3_UnknownBlockAbsent ==
    LET without == RunLoop(StartState, WithoutUnknownBlocks(records, FALSE))
    IN  /\ UnknownBlockDiscarded
        /\ (pc = "loop" /\ currentQuestion # Null) =>
              /\ QuestionSansLine(currentQuestion)
                    = QuestionSansLine(without.currentQuestion)
              /\ QuestionsSansLine(questions)
                    = QuestionsSansLine(without.questions)
        /\ (pc = "done" /\ LastNewQuestion(records) > 0
              /\ ~IsUnknownNewQuestionRow(records[LastNewQuestion(records)])) =>
              QuestionsSansLine(questions)
                  = QuestionsSansLine(AfterLoop(without).questions)

\* a parse has returned a question of a valid block that followed an
\* unknown-type block with a row of its own
C3_Witness ==
    /\ pc = "done"
    /\ Len(records) >= 5
    /\ IsUnknownNewQuestionRow(records[1])
    /\ ~IsNewQuestionRow(records[2])
    /\ records[3] = <<IN_NewQuestion, T_TF>>
    /\ Len(questions) = 1
    /\ questions[1].type = T_TF

-----------------------------------------------------------------------------
(* SpecCsv: parseQuizCsv on whole text buffers whose QuestionText cell is  *)
(* quoted                                                                  *)

MaxContent == 3

ContentChars == {"x", LF, COMMA, SPACE, QUOTE}

\* the strings over ContentChars of length at most MaxContent
Contents ==
    UNION {[1..n -> ContentChars] : n \in 0..MaxContent}

CSV_HEAD == <<"N","e","w","Q","u","e","s","t","i","o","n",",","W","R","\n","T","i","t","l","e",",","A","\n","Q","u","e","s","t","i","o","n","T","e","x","t",",">>

CSV_TAILS == {<<>>, <<"\n","H","i","n","t",",","A">>}

\* the buffer with the cell content c between quotes after CSV_HEAD
Buffer(c, tail) == CSV_HEAD \o <<QUOTE>> \o c \o <<QUOTE>> \o tail

Buffers == {Buffer(c, tail) : c \in Contents, tail \in CSV_TAILS}

InitCsv ==
    /\ csvContent \in Buffers
    /\ pending = <<>>
    /\ records = <<>>
    /\ questions = <<>>
    /\ currentQuestion = Null
    /\ currentLineNumber = 0
    /\ console = <<>>
    /\ pc = "start"
    /\ UIInit

\* const records = splitCsvToRecords(csvContent)
SplitRecords ==
    /\ pc = "start"
    /\ pending' = SplitCsvToRecords(csvContent)
    /\ pc' = "loop"
    /\ UNCHANGED <<csvContent, records, questions, currentQuestion,
                   currentLineNumber, console>>
    /\ UNCHANGED ui

\* (mutation of FromBuffer: the loop reads the records from the far end)
FromBufferLastFirst ==
    IF pending = <<>> THEN {} ELSE {SplitCsvRow(pending[Len(pending)])}

\* const row = splitCsvRow(rawRecord), for the next record of the buffer
FromBuffer == IF pending = <<>> THEN {} ELSE {SplitCsvRow(Head(pending))}

\* the number of records of the buffer
RecordCount == Len(records) + Len(pending)

NextCsv ==
    \/ SplitRecords
    \/ NewQuestionRow(FromBuffer, RecordCount)
    \/ TitleRow(FromBuffer, RecordCount)
    \/ QuestionTextRow(FromBuffer, RecordCount)
    \/ HintRow(FromBuffer, RecordCount)
    \/ DefaultRow(FromBuffer, RecordCount)
    \/ EndOfInput

SpecCsv == InitCsv /\ [][NextCsv]_vars

\* c has a line feed, no double quote, and no leading or trailing whitespace
MultiLineContent(c) ==
    /\ \E i \in 1..Len(c) : c[i] = LF
    /\ \A i \in 1..Len(c) : c[i] # QUOTE
    /\ c[1] \notin Whitespace
    /\ c[Len(c)] \notin Whitespace

\* the number of records of a tail of CSV_TAILS
TailRecords(tail) == IF tail = <<>> THEN 0 ELSE 1

\* C4: a QuestionText row whose second cell is a quoted field with line
\* feeds (no double quotes, no leading or trailing whitespace) is one logical
\* record, and the cell content with its line feeds is stored unchanged in
\* questionText of the in-progress question.
C4_QuotedLineFeedsKept ==
    \A c \in Contents : \A tail \in CSV_TAILS :
        (csvContent = Buffer(c, tail) /\ MultiLineContent(c)) =>
            /\ Len(SplitCsvToRecords(csvContent)) = 3 + TailRecords(tail)
            /\ pc # "start" => RecordCount = 3 + TailRecords(tail)
            /\ Len(records) >= 3 => records[3] = <<IN_QuestionText, c>>
            /\ Len(records) >= 3 =>
                  /\ currentQuestion # Null
                  /\ Has(currentQuestion, "questionText")
                  /\ currentQuestion.questionText = c

\* the QuestionText record with the cell x LF x has been consumed and a
\* record follows it
C4_Witness ==
    /\ csvContent = Buffer(<<"x", LF, "x">>, <<"\n","H","i","n","t",",","A">>)
    /\ Len(records) = 3
    /\ Len(pending) = 1
    /\ currentQuestion.questionText = <<"x", LF, "x">>

-----------------------------------------------------------------------------
(* SpecOpt: Option, Item and Feedback rows of MC, MS and O blocks          *)

TXT_F == <<"F">>
TXT_G == <<"G">>

MaxOptRecords == 4

OptRows ==
    {<<IN_NewQuestion, T_MC>>, <<IN_NewQuestion, T_MS>>, <<IN_NewQuestion, T_O>>,
     <<IN_Option, NUM_100, TXT_A, S_html, TXT_G>>, <<IN_Option, NUM_0, TXT_B>>,
     <<IN_Item, TXT_A>>, <<IN_Feedback, TXT_F>>, <<IN_Feedback>>}

NextOpt ==
    \/ NewQuestionRow(OptRows, MaxOptRecords)
    \/ IgnoredRow(OptRows, MaxOptRecords)
    \/ OptionRow(OptRows, MaxOptRecords)
    \/ ItemRow(OptRows, MaxOptRecords)
    \/ FeedbackRow(OptRows, MaxOptRecords)
    \/ EndOfInput

SpecOpt == InitRows /\ [][NextOpt]_vars

\* the collection of options / items of a question of type MC, MS or O
CollectionField(q) == IF q.type = T_O THEN "items" ELSE "options"

\* q is an MC, MS or O question whose collection is non-empty
HasElements(q) ==
    /\ q # Null
    /\ q.type \in {T_MC, T_MS, T_O}
    /\ Has(q, CollectionField(q))
    /\ Len(q[CollectionField(q)]) > 0

\* this step of the loop consumed a row with the given lower-cased key
Consumed(key) ==
    /\ pc = "loop" /\ pc' = "loop"
    /\ Len(records') = Len(records) + 1
    /\ TypeOrKey(records'[Len(records')]) = key

\* the second cell of the row this step consumed ('' if it has none)
ConsumedValue == GetValue(records'[Len(records')], 1)

\* o2 is o1 with feedback set to value and nothing else changed
IsWithFeedback(o2, o1, value) ==
    /\ DOMAIN o2 = DOMAIN o1 \cup {"feedback"}
    /\ o2.feedback = value
    /\ \A f \in DOMAIN o1 \ {"feedback"} : o2[f] = o1[f]

\* q2 is q1 except, at most, for the field named
SameExcept(q2, q1, field) ==
    /\ DOMAIN q2 = DOMAIN q1
    /\ \A f \in DOMAIN q1 \ {field} : q2[f] = q1[f]

\* C5: for an MC, MS or O question with a non-empty collection, a Feedback
\* row sets the feedback of the last option / item to the row's second cell
\* and leaves the general feedback and every other option / item unchanged.
C5_FeedbackToLastElement ==
    [][(Consumed(K_feedback) /\ HasElements(currentQuestion)) =>
        LET f == CollectionField(currentQuestion)
            old == currentQuestion[f]
            new == currentQuestion'[f]
        IN  /\ SameExcept(currentQuestion', currentQuestion, f)
            /\ Has(currentQuestion', "feedback")
                  = Has(currentQuestion, "feedback")
            /\ Len(new) = Len(old)
            /\ IsWithFeedback(new[Len(old)], old[Len(old)], ConsumedValue)
            /\ \A i \in 1..(Len(old) - 1) : new[i] = old[i]
      ]_vars

\* the second of two MC options has received the feedback of a Feedback row;
\* the first keeps its own and the question has no general feedback
C5_Witness ==
    /\ pc = "loop"
    /\ Len(records) = 4
    /\ records[2] = <<IN_Option, NUM_100, TXT_A, S_html, TXT_G>>
    /\ records[3] = <<IN_Option, NUM_0, TXT_B>>
    /\ records[4] = <<IN_Feedback, TXT_F>>
    /\ currentQuestion # Null
    /\ currentQuestion.type = T_MC
    /\ Has(currentQuestion, "options")
    /\ Len(currentQuestion.options) = 2
    /\ currentQuestion.options[2].feedback = TXT_F
    /\ currentQuestion.options[1].feedback = TXT_G
    /\ ~Has(currentQuestion, "feedback")

-----------------------------------------------------------------------------
(* SpecTF: True, False and Feedback rows of TF blocks                      *)

MaxTFRecords == 5

TFRows ==
    {<<IN_NewQuestion, T_TF>>, <<IN_True, NUM_100>>,
     <<IN_False, NUM_0, TXT_G>>, <<IN_Feedback, TXT_F>>}

NextTF ==
    \/ NewQuestionRow(TFRows, MaxTFRecords)
    \/ IgnoredRow(TFRows, MaxTFRecords)
    \/ TrueRow(TFRows, MaxTFRecords)
    \/ FalseRow(TFRows, MaxTFRecords)
    \/ FeedbackRow(TFRows, MaxTFRecords)
    \/ EndOfInput

SpecTF == InitRows /\ [][NextTF]_vars

\* the index in rows of the last row of a key after the last NewQuestion
\* row, 0 if the block being built has no such row
LastInBlock(rows, key) ==
    LET inBlock == {i \in RowsOfKey(rows, key) : i > LastNewQuestion(rows)}
    IN  IF inBlock = {} THEN 0
        ELSE CHOOSE i \in inBlock : \A j \in inBlock : j <= i

\* q2 and q1 agree on a field: both lack it or both have it with one value
SameField(q2, q1, field) ==
    /\ Has(q2, field) = Has(q1, field)
    /\ Has(q1, field) => q2[field] = q1[field]

\* C6: for a TF question, a Feedback row attaches to the option defined by
\* the later record, judged by the last True and the last False row of the
\* question (to the only one defined, if only one is); the other option and
\* the general feedback are unchanged.
C6_FeedbackToLaterTFOption ==
    [][(/\ Consumed(K_feedback)
        /\ currentQuestion # Null
        /\ currentQuestion.type = T_TF
        /\ LastInBlock(records, K_true) + LastInBlock(records, K_false) > 0) =>
        LET toFalse == LastInBlock(records, K_false)
                          > LastInBlock(records, K_true)
            target == IF toFalse THEN "falseOption" ELSE "trueOption"
            other == IF toFalse THEN "trueOption" ELSE "falseOption"
        IN  /\ Has(currentQuestion, target)
            /\ SameExcept(currentQuestion', currentQuestion, target)
            /\ IsWithFeedback(currentQuestion'[target],
                              currentQuestion[target], ConsumedValue)
            /\ SameField(currentQuestion', currentQuestion, other)
            /\ SameField(currentQuestion', currentQuestion, "feedback")
      ]_vars

\* after False, True, False the Feedback row went to the false option, and
\* the true option and the general feedback have none
C6_Witness ==
    /\ pc = "loop"
    /\ Len(records) = 5
    /\ TypeOrKey(records[2]) = K_false
    /\ TypeOrKey(records[3]) = K_true
    /\ TypeOrKey(records[4]) = K_false
    /\ records[5] = <<IN_Feedback, TXT_F>>
    /\ currentQuestion # Null
    /\ Has(currentQuestion, "falseOption")
    /\ Has(currentQuestion, "trueOption")
    /\ currentQuestion.falseOption.feedback = TXT_F
    /\ ~Has(currentQuestion.trueOption, "feedback")
    /\ ~Has(currentQuestion, "feedback")

-----------------------------------------------------------------------------
(* SpecPairs: Choice and Match rows of M blocks                            *)

NUM_2 == <<"2">>
TXT_Y == <<"Y">>

MaxPairRecords == 5

PairRows ==
    {<<IN_NewQuestion, T_M>>,
     <<IN_Choice, NUM_1, TXT_A>>, <<IN_Choice, NUM_1, TXT_B>>,
     <<IN_Choice, NUM_2, TXT_A>>,
     <<IN_Match, NUM_1, TXT_X>>, <<IN_Match, NUM_1, TXT_Y>>,
     <<IN_Match, NUM_2, TXT_X>>}

NextPairs ==
    \/ NewQuestionRow(PairRows, MaxPairRecords)
    \/ IgnoredRow(PairRows, MaxPairRecords)
    \/ ChoiceRow(PairRows, MaxPairRecords)
    \/ MatchRow(PairRows, MaxPairRecords)
    \/ EndOfInput

SpecPairs == InitRows /\ [][NextPairs]_vars

\* the choice number a Choice or Match row carries
NumberOf(row) == SafeParseInt(GetValue(row, 1), 0)

\* the Choice and Match rows of the block being built
ChoiceAndMatchRows(rows) ==
    {i \in RowsOfKey(rows, K_choice) \cup RowsOfKey(rows, K_match) :
        i > LastNewQuestion(rows)}

NumbersSeen(rows) == {NumberOf(rows[i]) : i \in ChoiceAndMatchRows(rows)}

\* the first Choice or Match row of the block with number k
FirstSeen(rows, k) ==
    CHOOSE i \in ChoiceAndMatchRows(rows) :
        /\ NumberOf(rows[i]) = k
        /\ \A j \in ChoiceAndMatchRows(rows) : NumberOf(rows[j]) = k => i <= j

\* the last row of the block with the given key and number k, 0 if none
LastOf(rows, key, k) ==
    LET of == {i \in ChoiceAndMatchRows(rows) :
                  TypeOrKey(rows[i]) = key /\ NumberOf(rows[i]) = k}
    IN  IF of = {} THEN 0 ELSE CHOOSE i \in of : \A j \in of : j <= i

PairsOf(q) == IF Has(q, "pairs") THEN q.pairs ELSE <<>>

\* C7: for a Matching question, after Choice and Match rows with positive
\* numbers, pairs holds exactly one pair per distinct number seen, in order
\* of first appearance, with the text of the last Choice row for the number
\* as choiceText and the text of the last Match row for it as matchText.
C7_PairsJoinedByNumber ==
    (/\ pc = "loop"
     /\ currentQuestion # Null
     /\ currentQuestion.type = T_M
     /\ \A i \in ChoiceAndMatchRows(records) : NumberOf(records[i]) > 0) =>
        LET pairs == PairsOf(currentQuestion)
        IN  /\ Len(pairs) = Cardinality(NumbersSeen(records))
            /\ {pairs[i].choiceNo : i \in 1..Len(pairs)} = NumbersSeen(records)
            /\ \A i, j \in 1..Len(pairs) :
                  i < j => FirstSeen(records, pairs[i].choiceNo)
                              < FirstSeen(records, pairs[j].choiceNo)
            /\ \A i \in 1..Len(pairs) :
                  LET c == LastOf(records, K_choice, pairs[i].choiceNo)
                      m == LastOf(records, K_match, pairs[i].choiceNo)
                  IN  /\ c # 0 => pairs[i].choiceText = GetValue(records[c], 2)
                      /\ m # 0 => pairs[i].matchText = GetValue(records[m], 2)

\* number 1 was seen first and twice as a Choice, then matched twice; number
\* 2 came in between: two pairs, each with the last texts of its number
C7_Witness ==
    /\ pc = "loop"
    /\ records = <<<<IN_NewQuestion, T_M>>, <<IN_Choice, NUM_1, TXT_A>>,
                   <<IN_Match, NUM_2, TXT_X>>, <<IN_Choice, NUM_1, TXT_B>>,
                   <<IN_Match, NUM_1, TXT_Y>>>>
    /\ currentQuestion # Null
    /\ Has(currentQuestion, "pairs")
    /\ Len(currentQuestion.pairs) = 2
    /\ currentQuestion.pairs[1] =
          [choiceNo |-> 1, choiceText |-> TXT_B, matchText |-> TXT_Y]
    /\ currentQuestion.pairs[2].choiceNo = 2
    /\ currentQuestion.pairs[2].matchText = TXT_X

-----------------------------------------------------------------------------
(* SpecPlaceholder: Match rows without a Choice row, up to finalization    *)

MaxPlaceholderRecords == 5

PlaceholderRows ==
    {<<IN_NewQuestion, T_M>>, <<IN_Title, TXT_A>>, <<IN_QuestionText, TXT_B>>,
     <<IN_Choice, NUM_1, TXT_A>>, <<IN_Match, NUM_1, TXT_X>>,
     <<IN_Match, NUM_2, TXT_Y>>}

NextPlaceholder ==
    \/ NewQuestionRow(PlaceholderRows, MaxPlaceholderRecords)
    \/ IgnoredRow(PlaceholderRows, MaxPlaceholderRecords)
    \/ TitleRow(PlaceholderRows, MaxPlaceholderRecords)
    \/ QuestionTextRow(PlaceholderRows, MaxPlaceholderRecords)
    \/ ChoiceRow(PlaceholderRows, MaxPlaceholderRecords)
    \/ MatchRow(PlaceholderRows, MaxPlaceholderRecords)
    \/ EndOfInput

SpecPlaceholder == InitRows /\ [][NextPlaceholder]_vars

\* this step finalizes the question being built: at a NewQuestion row or at
\* the end of the input
Finalizes == Consumed(K_newquestion) \/ (pc = "loop" /\ pc' = "done")

\* q is a Matching question with a title and a question text in which some
\* pair is a placeholder (its number has no Choice row in the block) and
\* nothing else is missing: every pair has a match text and every pair
\* with a Choice row has a choice text
OnlyPlaceholderAmiss(q, rows) ==
    /\ q # Null
    /\ q.type = T_M
    /\ Has(q, "title") /\ q.title # <<>>
    /\ Has(q, "questionText") /\ q.questionText # <<>>
    /\ Has(q, "pairs")
    /\ \E i \in 1..Len(q.pairs) : LastOf(rows, K_choice, q.pairs[i].choiceNo) = 0
    /\ \A i \in 1..Len(q.pairs) :
          /\ q.pairs[i].matchText # <<>>
          /\ LastOf(rows, K_choice, q.pairs[i].choiceNo) # 0
                => q.pairs[i].choiceText # <<>>

\* C8: a Match row with a positive number for which no pair exists appends
\* exactly one pair with that number, a non-empty placeholder choice text
\* and the row's match text, emits one warning, and leaves the existing
\* pairs unchanged; the placeholder does not get the question dropped at
\* finalization.
C8_PlaceholderPair ==
    [][/\ (/\ Consumed(K_match)
           /\ currentQuestion # Null
           /\ currentQuestion.type = T_M
           /\ NumberOf(records'[Len(records')]) > 0
           /\ \A i \in 1..Len(PairsOf(currentQuestion)) :
                 PairsOf(currentQuestion)[i].choiceNo
                    # NumberOf(records'[Len(records')])) =>
            LET old == PairsOf(currentQuestion)
                new == PairsOf(currentQuestion')
            IN  /\ Len(new) = Len(old) + 1
                /\ SubSeq(new, 1, Len(old)) = old
                /\ DOMAIN new[Len(new)] = {"choiceNo", "choiceText", "matchText"}
                /\ new[Len(new)].choiceNo = NumberOf(records'[Len(records')])
                /\ new[Len(new)].choiceText # <<>>
                /\ new[Len(new)].matchText = GetValue(records'[Len(records')], 2)
                /\ \A f \in DOMAIN currentQuestion \ {"pairs"} :
                      currentQuestion'[f] = currentQuestion[f]
                /\ Len(console') = Len(console) + 1
                /\ SubSeq(console', 1, Len(console)) = console
                /\ console'[Len(console')].level = "warn"
       /\ (Finalizes /\ OnlyPlaceholderAmiss(currentQuestion, records)) =>
            questions' = Append(questions, currentQuestion)
      ]_vars

\* a Matching question whose only pair is the placeholder of Match,2,Y was
\* returned at the end of the input, with the warning on the console
C8_Witness ==
    /\ pc = "done"
    /\ records = <<<<IN_NewQuestion, T_M>>, <<IN_Title, TXT_A>>,
                   <<IN_QuestionText, TXT_B>>, <<IN_Match, NUM_2, TXT_Y>>>>
    /\ Len(questions) = 1
    /\ Len(questions[1].pairs) = 1
    /\ questions[1].pairs[1].choiceNo = 2
    /\ questions[1].pairs[1].choiceText # <<>>
    /\ questions[1].pairs[1].matchText = TXT_Y
    /\ console = <<Diag("warn", "PlaceholderChoice", 4)>>

-----------------------------------------------------------------------------
(* SpecLoop: the for loop of parseQuizCsv over the records of a buffer,    *)
(* and the block after it, running to the end                              *)

\* the state when the loop is entered: the records are split, the locals
\* have their initial values
InitLoop ==
    /\ csvContent \in Buffers
    /\ pending = SplitCsvToRecords(csvContent)
    /\ records = <<>>
    /\ questions = <<>>
    /\ currentQuestion = Null
    /\ currentLineNumber = 0
    /\ console = <<>>
    /\ pc = "loop"
    /\ UIInit

NextLoop ==
    \/ NewQuestionRow(FromBuffer, RecordCount)
    \/ TitleRow(FromBuffer, RecordCount)
    \/ QuestionTextRow(FromBuffer, RecordCount)
    \/ HintRow(FromBuffer, RecordCount)
    \/ DefaultRow(FromBuffer, RecordCount)
    \/ EndOfInput

\* the loop and the block after it are straight-line code: a step that can
\* be taken is taken
SpecLoop == InitLoop /\ [][NextLoop]_vars /\ WF_vars(NextLoop)

\* the tokenized rows of a sequence of raw records
Tokenized(recs) == [k \in 1..Len(recs) |-> SplitCsvRow(recs[k])]

\* C11: every logical record of the buffer is processed exactly once and in
\* input order, the end-of-input finalization runs once, after the last
\* record, and the call returns its Quiz; nothing stops later records from
\* being processed.
C11_EveryRecordOnceThenReturn ==
    /\ [](/\ records \o Tokenized(pending)
                = Tokenized(SplitCsvToRecords(csvContent))
          /\ currentLineNumber = Len(records))
    /\ [](pc \in {"loop", "done"})
    /\ [][/\ pc' = "done" => pc = "loop" /\ pending = <<>>
          /\ pc # "done"]_vars
    /\ [](pc = "done" => questions = ParseQuizCsv(csvContent))
    /\ <>(pc = "done")

\* a buffer of four records has been processed to the end and returned its
\* one question
C11_Witness ==
    /\ pc = "done"
    /\ Len(SplitCsvToRecords(csvContent)) = 4
    /\ Len(records) = 4
    /\ currentLineNumber = 4
    /\ pending = <<>>
    /\ Len(questions) = 1

-----------------------------------------------------------------------------
(* SpecCalls: parseQuizCsv called again and again, on any of a few buffers *)

\* seqs[1] sep seqs[2] sep ... seqs[n]
RECURSIVE Join(_, _)
Join(seqs, sep) ==
    IF seqs = <<>> THEN <<>>
    ELSE IF Len(seqs) = 1 THEN seqs[1]
    ELSE seqs[1] \o sep \o Join(Tail(seqs), sep)

\* the text of rows without quoting: cells joined by commas, rows by line
\* feeds
CsvOf(rows) ==
    Join([k \in 1..Len(rows) |-> Join(rows[k], <<COMMA>>)], <<LF>>)

CSV_WR ==
    CsvOf(<<<<IN_NewQuestion, T_WR>>, <<IN_Title, TXT_A>>,
            <<IN_QuestionText, TXT_B>>>>)

CSV_ZZ == CsvOf(<<<<IN_NewQuestion, IN_ZZ>>, <<IN_Title, TXT_A>>>>)

CSV_TF ==
    CsvOf(<<<<IN_NewQuestion, T_TF>>, <<IN_Title, TXT_A>>,
            <<IN_QuestionText, TXT_B>>, <<IN_True, NUM_100>>,
            <<IN_False, NUM_0>>>>)

CSV_TF_NoFalse ==
    CsvOf(<<<<IN_NewQuestion, T_TF>>, <<IN_Title, TXT_A>>,
            <<IN_QuestionText, TXT_B>>, <<IN_True, NUM_100>>>>)

CallBuffers == {CSV_WR, CSV_ZZ, CSV_TF, CSV_TF_NoFalse}

\* calls are made while the console holds fewer messages than this
MaxConsole == 3

InitCalls ==
    /\ csvContent \in CallBuffers
    /\ pending = <<>>
    /\ records = <<>>
    /\ questions = <<>>
    /\ currentQuestion = Null
    /\ currentLineNumber = 0
    /\ console = <<>>
    /\ pc = "start"
    /\ UIInit

\* the call has returned and parseQuizCsv is called with another buffer
CallAgain ==
    /\ pc = "done"
    /\ Len(console) < MaxConsole
    /\ csvContent' \in CallBuffers
    /\ pending' = <<>>
    /\ records' = <<>>
    /\ Becomes(Entry(State))
    /\ pc' = "start"
    /\ UNCHANGED ui

NextCalls ==
    \/ SplitRecords
    \/ NewQuestionRow(FromBuffer, RecordCount)
    \/ IgnoredRow(FromBuffer, RecordCount)
    \/ TitleRow(FromBuffer, RecordCount)
    \/ QuestionTextRow(FromBuffer, RecordCount)
    \/ TrueRow(FromBuffer, RecordCount)
    \/ FalseRow(FromBuffer, RecordCount)
    \/ EndOfInput
    \/ CallAgain

SpecCalls == InitCalls /\ [][NextCalls]_vars

\* C12: parseQuizCsv is deterministic and keeps no state between calls:
\* whatever calls came before, on whatever buffers, the Quiz a call returns
\* is the one a first call on its buffer returns.
C12_ResultDependsOnBufferOnly ==
    pc = "done" => questions = ParseQuizCsv(csvContent)

\* a call on the complete TF buffer has returned its question after an
\* earlier call on another buffer left its message on the console
C12_Witness ==
    /\ pc = "done"
    /\ csvContent = CSV_TF
    /\ Len(console) >= 1
    /\ console[1].msg = "UnknownType"
    /\ Len(questions) = 1
    /\ questions[1].falseOption.definedLine = 5

-----------------------------------------------------------------------------
(* SpecSplit: splitCsvToRecords on every short text of letters, line feeds *)
(* and double quotes; no record of such a text is a NewQuestion row        *)

MaxSplitLen == 6

SplitChars == {"x", LF, QUOTE}

SplitInputs == UNION {[1..n -> SplitChars] : n \in 0..MaxSplitLen}

InitSplit ==
    /\ csvContent \in SplitInputs
    /\ pending = <<>>
    /\ records = <<>>
    /\ questions = <<>>
    /\ currentQuestion = Null
    /\ currentLineNumber = 0
    /\ console = <<>>
    /\ pc = "start"
    /\ UIInit

NextSplit ==
    \/ SplitRecords
    \/ IgnoredRow(FromBuffer, RecordCount)
    \/ EndOfInput

SpecSplit == InitSplit /\ [][NextSplit]_vars

\* the length of the run of double quotes that ends at position j of s
RECURSIVE QuoteRun(_, _)
QuoteRun(s, j) ==
    IF j = 0 \/ s[j] # QUOTE THEN 0 ELSE 1 + QuoteRun(s, j - 1)

\* the double quote at position j of s is not part of a doubled pair: it is
\* the last of a run of odd length (pairs are taken from the left)
TogglesAt(s, j) ==
    /\ s[j] = QUOTE
    /\ j = Len(s) \/ s[j + 1] # QUOTE
    /\ QuoteRun(s, j) % 2 = 1

\* a quoted span is open at position i of s
OpenAt(s, i) == Cardinality({j \in 1..(i - 1) : TogglesAt(s, j)}) % 2 = 1

\* the line feeds of s that are not inside an open quoted span
Boundaries(s) == {i \in 1..Len(s) : s[i] = LF /\ ~OpenAt(s, i)}

\* the k-th smallest element of a set of numbers
KthSmallest(B, k) == CHOOSE b \in B : Cardinality({c \in B : c <= b}) = k

\* the pieces of s between the positions of B
Segments(s, B) ==
    LET n == Cardinality(B)
    IN  [k \in 1..(n + 1) |->
            SubSeq(s, IF k = 1 THEN 1 ELSE KthSmallest(B, k - 1) + 1,
                      IF k = n + 1 THEN Len(s) ELSE KthSmallest(B, k) - 1)]

\* the records of s when the boundaries are Boundaries(s): each piece
\* trimmed, the empty ones left out
RecordsAtBoundaries(s) ==
    LET segs == Segments(s, Boundaries(s))
    IN  FilterNonEmpty([k \in 1..Len(segs) |-> Trim(segs[k])])

\* C13: splitCsvToRecords ends a record at exactly the line feeds that are
\* not inside an open quoted span, the quote state toggling at each double
\* quote that is not part of a doubled pair; a line feed inside an open span
\* never ends a record.
C13_BoundariesOutsideQuotes ==
    /\ SplitCsvToRecords(csvContent) = RecordsAtBoundaries(csvContent)
    /\ pc = "loop" =>
          pending = SubSeq(RecordsAtBoundaries(csvContent), Len(records) + 1,
                           Len(RecordsAtBoundaries(csvContent)))

\* a doubled pair, then a quote that opens a span over the first line feed
\* and one that closes it before the second: the text is one record
C13_Witness ==
    /\ pc = "loop"
    /\ csvContent = <<QUOTE, QUOTE, QUOTE, LF, QUOTE, LF>>
    /\ pending = <<<<QUOTE, QUOTE, QUOTE, LF, QUOTE>>>>

-----------------------------------------------------------------------------
(* SpecQuoted: buffers whose QuestionText cell is written with CSV quoting *)

MaxCell == 3

CellChars == {"x", QUOTE, COMMA, SPACE}

CellContents == UNION {[1..n -> CellChars] : n \in 0..MaxCell}

\* c with every double quote doubled
RECURSIVE DoubleQuotes(_)
DoubleQuotes(c) ==
    IF c = <<>> THEN <<>>
    ELSE (IF Head(c) = QUOTE THEN <<QUOTE, QUOTE>> ELSE <<Head(c)>>)
            \o DoubleQuotes(Tail(c))

\* the CSV quoting of the cell content c
Quoted(c) == <<QUOTE>> \o DoubleQuotes(c) \o <<QUOTE>>

QuotedBuffer(c) == CSV_HEAD \o Quoted(c)

InitQuoted ==
    /\ csvContent \in {QuotedBuffer(c) : c \in CellContents}
    /\ pending = <<>>
    /\ records = <<>>
    /\ questions = <<>>
    /\ currentQuestion = Null
    /\ currentLineNumber = 0
    /\ console = <<>>
    /\ pc = "start"
    /\ UIInit

NextQuoted ==
    \/ SplitRecords
    \/ NewQuestionRow(FromBuffer, RecordCount)
    \/ TitleRow(FromBuffer, RecordCount)
    \/ QuestionTextRow(FromBuffer, RecordCount)
    \/ EndOfInput

SpecQuoted == InitQuoted /\ [][NextQuoted]_vars

NoOuterWhitespace(c) ==
    c # <<>> => c[1] \notin Whitespace /\ c[Len(c)] \notin Whitespace

\* C14: splitCsvRow inverts the CSV quoting of a cell: for a content c
\* without leading or trailing whitespace (commas and double quotes allowed
\* anywhere), the quoted form of c tokenizes to the one cell c.
C14_QuotingInverted ==
    \A c \in CellContents :
        (csvContent = QuotedBuffer(c) /\ NoOuterWhitespace(c)) =>
            /\ SplitCsvRow(Quoted(c)) = <<c>>
            /\ Len(records) >= 3 => records[3] = <<IN_QuestionText, c>>

-----------------------------------------------------------------------------
(* Dropped blocks and their diagnostics, under Spec                        *)

\* this step closes the block being built: a NewQuestion row arrives or the
\* input ends while a question is in progress
ClosesBlock == Finalizes /\ currentQuestion # Null

\* the console calls this step made
NewMessages == SubSeq(console', Len(console) + 1, Len(console'))

\* how many of msgs report a dropped question
DropCount(msgs) ==
    Cardinality({i \in 1..Len(msgs) : msgs[i].msg \in DropMessages})

\* the block being built started with a NewQuestion row of a known type
KnownBlockOpen ==
    /\ LastNewQuestion(records) # 0
    /\ Includes(knownTypes, GetValue(records[LastNewQuestion(records)], 1))

\* C15: every known-type block that does not become a Question of the Quiz,
\* dropped at a following NewQuestion row or at the end of the input, has a
\* dropped-question diagnostic emitted for it, and no such diagnostic is
\* emitted for a block that is included (nor at any other step).
C15_DroppedIffDiagnosed ==
    /\ [](pc = "loop" => (currentQuestion # Null <=> KnownBlockOpen))
    /\ [][/\ ClosesBlock =>
                \/ /\ questions' = Append(questions, currentQuestion)
                   /\ DropCount(NewMessages) = 0
                \/ /\ questions' = questions
                   /\ DropCount(NewMessages) >= 1
          /\ ~ClosesBlock =>
                /\ questions' = questions
                /\ DropCount(NewMessages) = 0
         ]_vars

\* of two blocks, the first was dropped at the second NewQuestion row with
\* its diagnostic, and the second was included at the end of the input
\* without one
C15_Witness ==
    /\ pc = "done"
    /\ records = <<<<IN_NewQuestion, T_WR>>, <<IN_NewQuestion, T_WR>>,
                   <<IN_Title, TXT_A>>, <<IN_QuestionText, TXT_B>>>>
    /\ Len(questions) = 1
    /\ console = <<Diag("warn", "SkippingIncompleteQuestion", 2)>>

-----------------------------------------------------------------------------
(* The page: FileUpload hands files to Home, Home calls parseQuizCsv.      *)
(* A message is a sequence of its pieces of text.                          *)

MSG_NoQuestions ==
    <<"Could not parse any valid questions from the CSV. Please check the file format.">>
MSG_FileRejected == <<"File rejected: ">>
MSG_FailedToRead == <<"Failed to read file content.">>
MSG_ErrorReading == <<"Error reading file.">>
MSG_InvalidFile == <<"Invalid file type or size.">>

\* handleFileReject(reason)
handleFileReject(h, reason) ==
    [quiz |-> Null, fileName |-> Null, isLoading |-> FALSE,
     error |-> MSG_FileRejected \o reason]

\* handleFileProcess(csvContent, name) up to the setTimeout call
handleFileProcess(h, name) ==
    [h EXCEPT !.isLoading = TRUE, !.error = Null, !.fileName = name]

\* (mutation of AfterParse: the check for an empty question list is missing)
AfterParseNoCheck(h, parsedQuestions) ==
    [h EXCEPT !.quiz = [questions |-> parsedQuestions], !.isLoading = FALSE]

\* the setTimeout callback of handleFileProcess after parseQuizCsv returned
AfterParse(h, parsedQuestions) ==
    IF Len(parsedQuestions) = 0
    THEN [h EXCEPT !.error = MSG_NoQuestions, !.quiz = Null,
                   !.isLoading = FALSE]
    ELSE [h EXCEPT !.quiz = [questions |-> parsedQuestions],
                   !.isLoading = FALSE]

\* (mutation of OnLoadCallback: if (content) is missing)
OnLoadAlwaysAccepts(content) == "onFileAccepted"

\* reader.onload: which callback of the parent is made
OnLoadCallback(content) ==
    IF content # <<>> THEN "onFileAccepted" ELSE "onFileRejected"

\* one callback made for the file of a drop
Call(drop, file, callback) ==
    [drop |-> drop, file |-> file, callback |-> callback]

\* the state of FileUpload after a rejection
Rejecting(rejectionError) ==
    [uploadedFile |-> Null, error |-> rejectionError, progress |-> 0]

\* fileRejections[0].errors[0].message || "Invalid file type or size."
RejectionMessage(rejection) ==
    IF rejection.message # <<>> THEN rejection.message ELSE MSG_InvalidFile

\* the parser's variables are not touched
ParserIdle ==
    UNCHANGED <<csvContent, pending, records, questions, currentQuestion,
                currentLineNumber, console, pc>>

\* the files a user may drop: fate is the event the FileReader ends with
FILE_quiz == [name |-> <<"quiz.csv">>, fate |-> "load", content |-> CSV_WR]
FILE_noQuestions ==
    [name |-> <<"none.csv">>, fate |-> "load", content |-> CSV_ZZ]
FILE_empty == [name |-> <<"empty.csv">>, fate |-> "load", content |-> <<>>]
FILE_unreadable ==
    [name |-> <<"gone.csv">>, fate |-> "error", content |-> <<>>]

\* the rejections the dropzone may report (wrong type, over 5MB)
REJ_type == [name |-> <<"notes.pdf">>,
             message |-> <<"File type must be text/csv,.csv">>]
REJ_plain == [name |-> <<"huge.csv">>, message |-> <<>>]

AcceptedLists ==
    {<<>>} \cup {<<f>> : f \in {FILE_quiz, FILE_noQuestions, FILE_empty,
                                FILE_unreadable}}

RejectionLists == {<<>>} \cup {<<r>> : r \in {REJ_type, REJ_plain}}

MaxDrops == 2

\* onDrop(acceptedFiles, fileRejections), with handleFileRead up to
\* reader.readAsText
OnDrop(acceptedFiles, fileRejections) ==
    LET k == Len(eventLoop.drops) + 1
    IN  /\ Len(eventLoop.drops) < MaxDrops
        /\ IF fileRejections # <<>>
           THEN LET rejectionError == RejectionMessage(fileRejections[1])
                IN  /\ fileUpload' = Rejecting(rejectionError)
                    /\ home' = handleFileReject(home, rejectionError)
                    /\ eventLoop' =
                          [eventLoop EXCEPT
                              !.drops = Append(@, [acceptedFiles |-> acceptedFiles,
                                                   fileRejections |-> fileRejections]),
                              !.calls = Append(@, Call(k, fileRejections[1].name,
                                                       "onFileRejected"))]
           ELSE /\ fileUpload' =
                      [uploadedFile |-> IF acceptedFiles # <<>>
                                        THEN acceptedFiles[1].name ELSE Null,
                       error |-> Null, progress |-> 0]
                /\ home' = home
                /\ eventLoop' =
                      [eventLoop EXCEPT
                          !.drops = Append(@, [acceptedFiles |-> acceptedFiles,
                                               fileRejections |-> fileRejections]),
                          !.reading = IF acceptedFiles # <<>>
                                      THEN @ \cup {k} ELSE @]
        /\ ParserIdle

\* reader.onprogress with lengthComputable, half way
ReaderOnProgress ==
    /\ \E k \in eventLoop.reading :
          fileUpload' = [fileUpload EXCEPT !.progress = 50]
    /\ UNCHANGED <<home, eventLoop>>
    /\ ParserIdle

\* reader.onload
ReaderOnLoad ==
    /\ \E k \in eventLoop.reading :
        LET file == eventLoop.drops[k].acceptedFiles[1]
        IN  /\ file.fate = "load"
            /\ IF OnLoadCallback(file.content) = "onFileAccepted"
               THEN /\ home' = handleFileProcess(home, file.name)
                    /\ fileUpload' = [fileUpload EXCEPT !.progress = 100]
                    /\ eventLoop' =
                          [eventLoop EXCEPT
                              !.reading = @ \ {k},
                              !.timers = Append(@, k),
                              !.calls = Append(@, Call(k, file.name,
                                                       "onFileAccepted"))]
               ELSE /\ home' = handleFileReject(home, MSG_FailedToRead)
                    /\ fileUpload' = Rejecting(MSG_FailedToRead)
                    /\ eventLoop' =
                          [eventLoop EXCEPT
                              !.reading = @ \ {k},
                              !.calls = Append(@, Call(k, file.name,
                                                       "onFileRejected"))]
    /\ ParserIdle

\* reader.onerror
ReaderOnError ==
    /\ \E k \in eventLoop.reading :
        LET file == eventLoop.drops[k].acceptedFiles[1]
        IN  /\ file.fate = "error"
            /\ home' = handleFileReject(home, MSG_ErrorReading)
            /\ fileUpload' = Rejecting(MSG_ErrorReading)
            /\ eventLoop' =
                  [eventLoop EXCEPT
                      !.reading = @ \ {k},
                      !.calls = Append(@, Call(k, file.name, "onFileRejected"))]
    /\ ParserIdle

\* removeFile, the button shown while uploadedFile && !error
RemoveFile ==
    /\ fileUpload.uploadedFile # Null
    /\ fileUpload.error = Null
    /\ fileUpload' = FileUploadInit
    /\ UNCHANGED <<home, eventLoop>>
    /\ ParserIdle

\* the setTimeout callback of handleFileProcess: the whole call of
\* parseQuizCsv on the content the timer was set with, then the setState
\* calls.  Timers of one delay run in the order they were set.
TimerFires ==
    /\ eventLoop.timers # <<>>
    /\ LET k == Head(eventLoop.timers)
           file == eventLoop.drops[k].acceptedFiles[1]
           rows == Tokenized(SplitCsvToRecords(file.content))
           st == AfterLoop(RunLoop(Entry(State), rows))
       IN  /\ csvContent' = file.content
           /\ pending' = <<>>
           /\ records' = rows
           /\ Becomes(st)
           /\ pc' = "done"
           /\ home' = AfterParse(home, st.questions)
           /\ eventLoop' =
                 [eventLoop EXCEPT
                     !.timers = Tail(@),
                     !.calls = Append(@, Call(k, file.name, "parseQuizCsv"))]
    /\ UNCHANGED fileUpload

InitPage ==
    /\ csvContent = <<>>
    /\ pending = <<>>
    /\ records = <<>>
    /\ questions = <<>>
    /\ currentQuestion = Null
    /\ currentLineNumber = 0
    /\ console = <<>>
    /\ pc = "idle"
    /\ UIInit

NextPage ==
    \/ \E acceptedFiles \in AcceptedLists, fileRejections \in RejectionLists :
          OnDrop(acceptedFiles, fileRejections)
    \/ ReaderOnProgress
    \/ ReaderOnLoad
    \/ ReaderOnError
    \/ RemoveFile
    \/ TimerFires

SpecPage == InitPage /\ [][NextPage]_vars

\* in this step a timer ran: parseQuizCsv was called and has returned
ParseCompletes ==
    /\ Len(eventLoop'.timers) < Len(eventLoop.timers)
    /\ pc' = "done"

\* C16: the page never holds a Quiz with zero questions as its displayed
\* quiz: when a parse completes with an empty question sequence the page
\* sets a non-null error and sets quiz to null.
C16_NoEmptyQuizDisplayed ==
    /\ [](home.quiz # Null => Len(home.quiz.questions) > 0)
    /\ [][(ParseCompletes /\ questions' = <<>>) =>
             (home'.error # Null /\ home'.quiz = Null)]_vars

\* the quiz of the first file was on display when the parse of the second
\* file came back empty: the quiz is gone and the error is set
C16_Witness ==
    /\ pc = "done"
    /\ questions = <<>>
    /\ Len(eventLoop.calls) = 4
    /\ eventLoop.calls[2] = Call(1, <<"quiz.csv">>, "parseQuizCsv")
    /\ eventLoop.calls[4] = Call(2, <<"none.csv">>, "parseQuizCsv")
    /\ home.quiz = Null
    /\ home.error = MSG_NoQuestions

\* the positions of eventLoop.calls where callback was made for the file
\* named name of drop k
CallsFor(k, name, callback) ==
    {i \in 1..Len(eventLoop.calls) :
        eventLoop.calls[i] = Call(k, name, callback)}

\* the names of the files handed over by drop k
FilesOfDrop(k) ==
    {eventLoop.drops[k].acceptedFiles[i].name :
        i \in 1..Len(eventLoop.drops[k].acceptedFiles)}
    \cup {eventLoop.drops[k].fileRejections[i].name :
        i \in 1..Len(eventLoop.drops[k].fileRejections)}

\* C17: for each file handed to the upload component at most one of
\* onFileAccepted and onFileRejected is invoked, never both; onFileAccepted
\* is invoked only once the file's content has been read completely and is
\* non-empty; a rejected file never causes the parser to be invoked.
C17_OneCallbackPerFile ==
    /\ [](\A k \in 1..Len(eventLoop.drops) : \A name \in FilesOfDrop(k) :
            Cardinality(CallsFor(k, name, "onFileAccepted")
                        \cup CallsFor(k, name, "onFileRejected")) <= 1)
    /\ [](\A i \in 1..Len(eventLoop.calls) :
            eventLoop.calls[i].callback = "onFileAccepted" =>
                LET k == eventLoop.calls[i].drop
                    accepted == eventLoop.drops[k].acceptedFiles
                IN  /\ accepted # <<>>
                    /\ accepted[1].name = eventLoop.calls[i].file
                    /\ accepted[1].fate = "load"
                    /\ accepted[1].content # <<>>
                    /\ k \notin eventLoop.reading)
    /\ [](\A i \in 1..Len(eventLoop.calls) :
            eventLoop.calls[i].callback = "parseQuizCsv" =>
                LET k == eventLoop.calls[i].drop
                    name == eventLoop.calls[i].file
                IN  /\ \E j \in CallsFor(k, name, "onFileAccepted") : j < i
                    /\ CallsFor(k, name, "onFileRejected") = {})
    /\ [][\A k \in 1..Len(eventLoop'.drops) : \A name \in FilesOfDrop(k)' :
            (Call(k, name, "onFileAccepted") \in
                 {eventLoop'.calls[i] : i \in 1..Len(eventLoop'.calls)}
                 \ {eventLoop.calls[i] : i \in 1..Len(eventLoop.calls)}) =>
                (k \in eventLoop.reading /\ k \notin eventLoop'.reading)
         ]_vars

\* an empty file was rejected after its read, then a quiz file was accepted
\* after its read and parsed
C17_Witness ==
    eventLoop.calls = <<Call(1, <<"empty.csv">>, "onFileRejected"),
                        Call(2, <<"quiz.csv">>, "onFileAccepted"),
                        Call(2, <<"quiz.csv">>, "parseQuizCsv")>>

-----------------------------------------------------------------------------
(* SpecEnd: one block of each type with complete and incomplete content,   *)
(* up to the end-of-input validation                                       *)

MaxEndRecords == 6

EndContentRows(t) ==
    IF t = T_SA THEN {<<IN_Answer, NUM_100, TXT_A>>}
    ELSE IF t = T_M THEN {<<IN_Choice, NUM_1, TXT_A>>, <<IN_Match, NUM_1, TXT_X>>,
                          <<IN_Choice, NUM_2, TXT_A>>}
    ELSE IF t = T_MC THEN {<<IN_Option, NUM_100, TXT_A>>}
    ELSE IF t = T_MS THEN {<<IN_Option, NUM_1, TXT_A>>}
    ELSE IF t = T_TF THEN {<<IN_True, NUM_100>>, <<IN_False, NUM_0>>}
    ELSE IF t = T_O THEN {<<IN_Item, TXT_A>>}
    ELSE {}

\* the rows that may come next: a NewQuestion row of a known type first, then
\* Title, QuestionText and content rows of that type
EndRows ==
    IF records = <<>>
    THEN {<<IN_NewQuestion, knownTypes[i]>> : i \in 1..Len(knownTypes)}
    ELSE IF currentQuestion = Null THEN {}
    ELSE {<<IN_Title, TXT_A>>, <<IN_QuestionText, TXT_B>>}
         \cup EndContentRows(currentQuestion.type)

NextEnd ==
    \/ NewQuestionRow(EndRows, MaxEndRecords)
    \/ TitleRow(EndRows, MaxEndRecords)
    \/ QuestionTextRow(EndRows, MaxEndRecords)
    \/ AnswerRow(EndRows, MaxEndRecords)
    \/ ChoiceRow(EndRows, MaxEndRecords)
    \/ MatchRow(EndRows, MaxEndRecords)
    \/ OptionRow(EndRows, MaxEndRecords)
    \/ TrueRow(EndRows, MaxEndRecords)
    \/ FalseRow(EndRows, MaxEndRecords)
    \/ ItemRow(EndRows, MaxEndRecords)
    \/ EndOfInput

SpecEnd == InitRows /\ [][NextEnd]_vars

\* this step is the end of the input with a titled question in progress
EndsWithTitled ==
    /\ pc = "loop" /\ pc' = "done"
    /\ currentQuestion # Null
    /\ Has(currentQuestion, "title") /\ currentQuestion.title # <<>>
    /\ Has(currentQuestion, "questionText")
    /\ currentQuestion.questionText # <<>>

\* every pair of an M question has both texts
EveryPairComplete(q) ==
    q.type = T_M =>
        \A i \in 1..Len(PairsOf(q)) :
            q.pairs[i].choiceText # <<>> /\ q.pairs[i].matchText # <<>>

\* C18 as stated: at end of input, a question in progress with non-empty
\* title and questionText that meets its type's rule (M: at least one pair
\* with both texts non-empty; MC/MS: at least one option; TF: both options;
\* O: at least one item; SA: a defined best answer) is included in the Quiz.
C18_IncludedAtEnd ==
    [][(EndsWithTitled /\ TypeRuleHolds(currentQuestion)) =>
          questions' = Append(questions, currentQuestion)]_vars

\* C18 amended: the same, where the rule for M is that there is at least one
\* pair and every pair has both texts non-empty.
C18_IncludedAtEndEveryPair ==
    [][(/\ EndsWithTitled
        /\ TypeRuleHolds(currentQuestion)
        /\ EveryPairComplete(currentQuestion)) =>
          questions' = Append(questions, currentQuestion)]_vars

\* an M question whose one pair has both texts was included at the end of
\* the input
C18_Witness ==
    /\ pc = "done"
    /\ Len(records) = 5
    /\ records[1] = <<IN_NewQuestion, T_M>>
    /\ Len(questions) = 1
    /\ questions[1].title = TXT_A
    /\ questions[1].pairs =
          <<[choiceNo |-> 1, choiceText |-> TXT_A, matchText |-> TXT_X]>>

-----------------------------------------------------------------------------
(* SpecKeys: each type-specific row after a NewQuestion row of each type   *)

MaxKeyRecords == 3

KeyRows ==
    {<<IN_NewQuestion, knownTypes[i]>> : i \in 1..Len(knownTypes)}
    \cup {<<IN_InitialText, TXT_A>>, <<IN_AnswerKey, TXT_A>>,
          <<IN_InputBox, NUM_2, NUM_100>>, <<IN_Answer, NUM_100, TXT_A>>,
          <<IN_Scoring, TXT_X>>, <<IN_Choice, NUM_1, TXT_A>>,
          <<IN_Match, NUM_1, TXT_X>>, <<IN_Option, NUM_100, TXT_A>>,
          <<IN_True, NUM_100>>, <<IN_False, NUM_0>>, <<IN_Item, TXT_A>>}

NextKeys ==
    \/ NewQuestionRow(KeyRows, MaxKeyRecords)
    \/ IgnoredRow(KeyRows, MaxKeyRecords)
    \/ InitialTextRow(KeyRows, MaxKeyRecords)
    \/ AnswerKeyRow(KeyRows, MaxKeyRecords)
    \/ InputBoxRow(KeyRows, MaxKeyRecords)
    \/ AnswerRow(KeyRows, MaxKeyRecords)
    \/ ScoringRow(KeyRows, MaxKeyRecords)
    \/ ChoiceRow(KeyRows, MaxKeyRecords)
    \/ MatchRow(KeyRows, MaxKeyRecords)
    \/ OptionRow(KeyRows, MaxKeyRecords)
    \/ TrueRow(KeyRows, MaxKeyRecords)
    \/ FalseRow(KeyRows, MaxKeyRecords)
    \/ ItemRow(KeyRows, MaxKeyRecords)
    \/ EndOfInput

SpecKeys == InitRows /\ [][NextKeys]_vars

TypeSpecificKeys ==
    {K_initialtext, K_answerkey, K_inputbox, K_answer, K_scoring, K_choice,
     K_match, K_option, K_true, K_false, K_item}

\* the question types a type-specific key is valid for
ValidTypes(key) ==
    IF key \in {K_initialtext, K_answerkey} THEN {T_WR}
    ELSE IF key \in {K_inputbox, K_answer} THEN {T_SA}
    ELSE IF key = K_scoring THEN {T_M, T_MS, T_O}
    ELSE IF key \in {K_choice, K_match} THEN {T_M}
    ELSE IF key = K_option THEN {T_MC, T_MS}
    ELSE IF key \in {K_true, K_false} THEN {T_TF}
    ELSE {T_O}

\* C19: a row with a type-specific key that arrives while the question in
\* progress has a type the key is not valid for leaves every field of that
\* question unchanged, and parsing continues with the next row.
C19_MismatchedKeyIgnored ==
    [][\A key \in TypeSpecificKeys :
          (/\ Consumed(key)
           /\ currentQuestion # Null
           /\ currentQuestion.type \notin ValidTypes(key)) =>
              (currentQuestion' = currentQuestion /\ pc' = "loop")]_vars

-----------------------------------------------------------------------------
(* Rows that arrive with no question in progress, under SpecUnknown        *)

\* this step of the loop consumed a row that is not a NewQuestion row
ConsumedOther ==
    /\ pc = "loop" /\ pc' = "loop"
    /\ Len(records') = Len(records) + 1
    /\ TypeOrKey(records'[Len(records')]) # K_newquestion

\* C20: with no question in progress, every row whose key is not newquestion
\* leaves the assembler state and the list of finalized questions unchanged;
\* so a buffer with no NewQuestion row yields an empty question sequence.
C20_IgnoredWithoutQuestion ==
    /\ [][(ConsumedOther /\ currentQuestion = Null) =>
             (currentQuestion' = Null /\ questions' = questions)]_vars
    /\ [](RowsOfKey(records, K_newquestion) = {} =>
             (currentQuestion = Null /\ questions = <<>>))

\* three rows and no NewQuestion row among them: the input has ended with
\* no question
C20_Witness ==
    /\ pc = "done"
    /\ records = <<<<IN_Title, TXT_A>>, <<IN_QuestionText, TXT_B>>,
                   <<IN_True, NUM_100>>>>
    /\ currentQuestion = Null
    /\ questions = <<>>
    /\ console = <<>>

-----------------------------------------------------------------------------
(* SpecBlocks: several blocks in a row, each with rows that fill fields,   *)
(* options, items or pairs of the question in progress                     *)

MaxBlockRecords == 6

MaxBlocks == 3

BlockTypes == {T_WR, T_M, T_MC, T_O, IN_ZZ}

\* the row that gives a block of type t a collection of its own
BlockContentRows(t) ==
    IF t = T_M THEN {<<IN_Choice, NUM_1, TXT_A>>}
    ELSE IF t = T_MC THEN {<<IN_Option, NUM_100, TXT_A>>}
    ELSE IF t = T_O THEN {<<IN_Item, TXT_A>>}
    ELSE {}

\* the rows that may come next: a NewQuestion row at any time, up to
\* MaxBlocks of them, and inside a block also Title, QuestionText and the
\* content row of its type, each at most once per block and in any order
BlockRows ==
    (IF Cardinality(RowsOfKey(records, K_newquestion)) < MaxBlocks
     THEN {<<IN_NewQuestion, t>> : t \in BlockTypes} ELSE {})
    \cup (IF currentQuestion = Null THEN {}
          ELSE (IF Has(currentQuestion, "title") THEN {}
                ELSE {<<IN_Title, TXT_A>>})
               \cup (IF Has(currentQuestion, "questionText") THEN {}
                     ELSE {<<IN_QuestionText, TXT_B>>})
               \cup (IF DOMAIN currentQuestion
                          \cap {"pairs", "options", "items"} # {} THEN {}
                     ELSE BlockContentRows(currentQuestion.type)))

NextBlocks ==
    \/ NewQuestionRow(BlockRows, MaxBlockRecords)
    \/ TitleRow(BlockRows, MaxBlockRecords)
    \/ QuestionTextRow(BlockRows, MaxBlockRecords)
    \/ ChoiceRow(BlockRows, MaxBlockRecords)
    \/ OptionRow(BlockRows, MaxBlockRecords)
    \/ ItemRow(BlockRows, MaxBlockRecords)
    \/ EndOfInput

SpecBlocks == InitRows /\ [][NextBlocks]_vars

\* the finalized questions are kept as they are: questions only grows at its
\* tail
FinalizedKept ==
    /\ Len(questions') >= Len(questions)
    /\ \A i \in 1..Len(questions) : questions'[i] = questions[i]

\* C21: a NewQuestion row of a known type starts a fresh question in
\* progress whose only defined fields are the type of the row and
\* points = 1, so that nothing set while an earlier question was built shows
\* in it; and no step changes a question that is already finalized.
C21_FreshQuestionOnly ==
    [][/\ (Consumed(K_newquestion) /\ Includes(knownTypes, ConsumedValue)) =>
              /\ DOMAIN currentQuestion' = {"type", "points"}
              /\ currentQuestion'.type = ConsumedValue
              /\ currentQuestion'.points = 1
       /\ FinalizedKept
      ]_vars

\* an MC block with title, text and an option was finalized by the
\* NewQuestion row of an O block, and an Item row followed: the finalized
\* question still has its option and no item, the one in progress has the
\* item and neither title nor option
C21_Witness ==
    /\ records = <<<<IN_NewQuestion, T_MC>>, <<IN_Title, TXT_A>>,
                   <<IN_QuestionText, TXT_B>>, <<IN_Option, NUM_100, TXT_A>>,
                   <<IN_NewQuestion, T_O>>, <<IN_Item, TXT_A>>>>
    /\ Len(questions) = 1
    /\ questions[1].type = T_MC
    /\ Len(questions[1].options) = 1
    /\ ~Has(questions[1], "items")
    /\ DOMAIN currentQuestion = {"type", "points", "items"}
    /\ currentQuestion.type = T_O

-----------------------------------------------------------------------------
(* The life of a block, under SpecBlocks                                   *)

\* the indexes of the NewQuestion rows of a known type
KnownStarts(rows) ==
    {i \in RowsOfKey(rows, K_newquestion) :
        Includes(knownTypes, GetValue(rows[i], 1))}

\* the index of the last row of the block that starts at row i
BlockEnd(rows, i) ==
    LET later == {j \in RowsOfKey(rows, K_newquestion) : j > i}
    IN  IF later = {} THEN Len(rows)
        ELSE (CHOOSE j \in later : \A k \in later : j <= k) - 1

\* the question built by the rows of the block that starts at row i, taken
\* by themselves
BlockQuestion(rows, i) ==
    RunLoop(StartState, SubSeq(rows, i, BlockEnd(rows, i))).currentQuestion

\* the blocks that are still open: the last one, until the input ends
OpenBlocks == IF pc = "loop" /\ currentQuestion # Null THEN 1 ELSE 0

\* the questions are those of known-type blocks, in the order of the blocks
QuestionsInBlockOrder ==
    \E f \in [1..Len(questions) -> KnownStarts(records)] :
        /\ \A i, j \in 1..Len(questions) : i < j => f[i] < f[j]
        /\ \A i \in 1..Len(questions) :
              questions[i] = BlockQuestion(records, f[i])

\* C22: every block opened by a NewQuestion row of a known type is finalized
\* exactly once, at the next NewQuestion row or at the end of the input, and
\* is then either appended to the questions or dropped; the questions stand
\* in the order of their NewQuestion rows and are never more than the
\* NewQuestion rows of a known type.
C22_FinalizedOnceInOrder ==
    /\ [](Len(questions) + DropCount(console) + OpenBlocks
              = Cardinality(KnownStarts(records)))
    /\ [][IF ClosesBlock
          THEN \/ /\ questions' = Append(questions, currentQuestion)
                  /\ DropCount(console') = DropCount(console)
               \/ /\ questions' = questions
                  /\ DropCount(console') = DropCount(console) + 1
          ELSE /\ questions' = questions
               /\ DropCount(console') = DropCount(console)]_vars
    /\ []QuestionsInBlockOrder
    /\ [](Len(questions) <= Cardinality(KnownStarts(records)))

\* an MC block and then a WR block, both with title and text, and the end of
\* the input: the first was appended at the second NewQuestion row, the
\* second at the end, and they stand in that order
C22_Witness ==
    /\ pc = "done"
    /\ records = <<<<IN_NewQuestion, T_MC>>, <<IN_Title, TXT_A>>,
                   <<IN_QuestionText, TXT_B>>, <<IN_NewQuestion, T_WR>>,
                   <<IN_Title, TXT_A>>, <<IN_QuestionText, TXT_B>>>>
    /\ Len(questions) = 2
    /\ questions[1].type = T_MC
    /\ questions[2].type = T_WR
    /\ DropCount(console) = 0

-----------------------------------------------------------------------------
(* The NewQuestion row that ends a block, under SpecBlocks                 *)

\* C23: a NewQuestion row finalizes the question in progress before its own
\* type code is looked at: the question before is appended when it has its
\* required fields and dropped with a diagnostic otherwise, whether the type
\* code of the row is known or not, and the diagnostic of an unknown type
\* code comes after that of the drop.
C23_FinalizedBeforeTypeExamined ==
    [][(Consumed(K_newquestion) /\ currentQuestion # Null) =>
          LET n == Len(records')
              unknown == IF Includes(knownTypes, ConsumedValue) THEN <<>>
                         ELSE <<Diag("warn", "UnknownType", n)>>
          IN  IF HasRequiredFields(currentQuestion)
              THEN /\ questions' = Append(questions, currentQuestion)
                   /\ NewMessages = unknown
              ELSE /\ questions' = questions
                   /\ NewMessages =
                        <<Diag("warn", "SkippingIncompleteQuestion", n)>>
                        \o unknown
      ]_vars

\* a WR block with title and text was ended by a NewQuestion row of the
\* unknown type ZZ: its question was appended, and no question is in progress
C23_Witness ==
    /\ pc = "loop"
    /\ records = <<<<IN_NewQuestion, T_WR>>, <<IN_Title, TXT_A>>,
                   <<IN_QuestionText, TXT_B>>, <<IN_NewQuestion, IN_ZZ>>>>
    /\ Len(questions) = 1
    /\ questions[1].title = TXT_A
    /\ currentQuestion = Null
    /\ console = <<Diag("warn", "UnknownType", 4)>>

-----------------------------------------------------------------------------
(* SpecFeedback: Feedback rows in blocks of every type                     *)

MaxFeedbackRecords == 4

\* the rows that give a block of type t the elements a Feedback row may go to
FeedbackContentRows(t) ==
    IF t = T_M THEN {<<IN_Choice, NUM_1, TXT_A>>}
    ELSE IF t \in {T_MC, T_MS} THEN {<<IN_Option, NUM_100, TXT_A>>}
    ELSE IF t = T_TF THEN {<<IN_True, NUM_100>>, <<IN_False, NUM_0>>}
    ELSE IF t = T_O THEN {<<IN_Item, TXT_A>>}
    ELSE IF t = T_SA THEN {<<IN_Answer, NUM_100, TXT_A>>}
    ELSE {}

FeedbackRows ==
    {<<IN_NewQuestion, knownTypes[i]>> : i \in 1..Len(knownTypes)}
    \cup {<<IN_Feedback, TXT_F>>, <<IN_Feedback>>}
    \cup (IF currentQuestion = Null THEN {}
          ELSE FeedbackContentRows(currentQuestion.type))

NextFeedback ==
    \/ NewQuestionRow(FeedbackRows, MaxFeedbackRecords)
    \/ IgnoredRow(FeedbackRows, MaxFeedbackRecords)
    \/ FeedbackRow(FeedbackRows, MaxFeedbackRecords)
    \/ AnswerRow(FeedbackRows, MaxFeedbackRecords)
    \/ ChoiceRow(FeedbackRows, MaxFeedbackRecords)
    \/ OptionRow(FeedbackRows, MaxFeedbackRecords)
    \/ TrueRow(FeedbackRows, MaxFeedbackRecords)
    \/ FalseRow(FeedbackRows, MaxFeedbackRecords)
    \/ ItemRow(FeedbackRows, MaxFeedbackRecords)
    \/ EndOfInput

SpecFeedback == InitRows /\ [][NextFeedback]_vars

\* q has no element a Feedback row could go to
NoEligibleElement(q) ==
    \/ q.type \in {T_WR, T_SA, T_M}
    \/ /\ q.type \in {T_MC, T_MS}
       /\ (Has(q, "options") => Len(q.options) = 0)
    \/ /\ q.type = T_O
       /\ (Has(q, "items") => Len(q.items) = 0)
    \/ /\ q.type = T_TF
       /\ ~Has(q, "trueOption")
       /\ ~Has(q, "falseOption")

\* C24: a Feedback row sets the general feedback field of the question if
\* and only if the question has no eligible element at that moment (it is
\* WR, SA or M, or MC/MS/O with an empty collection, or TF with neither
\* option defined); when it does, nothing else of the question changes, so
\* no option or item is modified.
C24_GeneralFeedbackIffNoElement ==
    [][(Consumed(K_feedback) /\ currentQuestion # Null) =>
          IF NoEligibleElement(currentQuestion)
          THEN currentQuestion' = Put(currentQuestion, "feedback", ConsumedValue)
          ELSE SameField(currentQuestion', currentQuestion, "feedback")
      ]_vars

\* an M question with a pair got a Feedback row: the text is in the general
\* feedback field and the pair is as it was
C24_Witness ==
    /\ records = <<<<IN_NewQuestion, T_M>>, <<IN_Choice, NUM_1, TXT_A>>,
                   <<IN_Feedback, TXT_F>>>>
    /\ currentQuestion.feedback = TXT_F
    /\ currentQuestion.pairs =
          <<[choiceNo |-> 1, choiceText |-> TXT_A, matchText |-> <<>>]>>

-----------------------------------------------------------------------------
(* SpecNumbers: Choice and Match rows of an M block with numbers of every  *)
(* kind                                                                    *)

NUM_minus1 == <<"-", "1">>
NUM_1x == <<"1", "x">>

MaxNumberRecords == 4

\* the second cells: a positive number, none, a text that is no number, zero,
\* a negative number, and a number followed by a letter (parseInt reads its
\* leading digits, so it counts as the number 1)
NumberCells == {NUM_1, <<>>, TXT_X, NUM_0, NUM_minus1, NUM_1x}

NumberRows ==
    {<<IN_NewQuestion, T_M>>}
    \cup {<<IN_Choice, c, TXT_A>> : c \in NumberCells}
    \cup {<<IN_Match, c, TXT_Y>> : c \in NumberCells}

NextNumbers ==
    \/ NewQuestionRow(NumberRows, MaxNumberRecords)
    \/ IgnoredRow(NumberRows, MaxNumberRecords)
    \/ ChoiceRow(NumberRows, MaxNumberRecords)
    \/ MatchRow(NumberRows, MaxNumberRecords)
    \/ EndOfInput

SpecNumbers == InitRows /\ [][NextNumbers]_vars

\* the cell holds no number (it is missing, blank, or does not start with an
\* integer), or the number zero, or a negative number
MissingOrNotPositive(cell) ==
    \/ Trim(cell) = <<>>
    \/ IsNaNParseInt(cell)
    \/ ParseInt(cell) <= 0

-----------------------------------------------------------------------------
(* SpecNumeric: rows whose numeric cell holds a text that is no number     *)

MaxNumericRecords == 3

NumericRows ==
    {<<IN_NewQuestion, t>> : t \in {T_SA, T_M, T_MC, T_MS, T_TF}}
    \cup {<<IN_Points, NUM_2>>, <<IN_Points, TXT_X>>, <<IN_Difficulty, TXT_X>>,
          <<IN_InputBox, TXT_X, TXT_X>>, <<IN_Option, TXT_X, TXT_A>>,
          <<IN_True, TXT_X>>, <<IN_False, TXT_X>>,
          <<IN_Choice, TXT_X, TXT_A>>, <<IN_Match, TXT_X, TXT_Y>>}

NextNumeric ==
    \/ NewQuestionRow(NumericRows, MaxNumericRecords)
    \/ IgnoredRow(NumericRows, MaxNumericRecords)
    \/ PointsRow(NumericRows, MaxNumericRecords)
    \/ DifficultyRow(NumericRows, MaxNumericRecords)
    \/ InputBoxRow(NumericRows, MaxNumericRecords)
    \/ OptionRow(NumericRows, MaxNumericRecords)
    \/ TrueRow(NumericRows, MaxNumericRecords)
    \/ FalseRow(NumericRows, MaxNumericRecords)
    \/ ChoiceRow(NumericRows, MaxNumericRecords)
    \/ MatchRow(NumericRows, MaxNumericRecords)
    \/ EndOfInput

SpecNumeric == InitRows /\ [][NextNumeric]_vars

\* the keys of the rows that carry a number, with the types they are for
NumericKeys ==
    {K_points, K_difficulty, K_inputbox, K_option, K_true, K_false, K_choice,
     K_match}

NumericKeyFits(key, t) ==
    IF key = K_inputbox THEN t = T_SA
    ELSE IF key = K_option THEN t \in {T_MC, T_MS}
    ELSE IF key \in {K_true, K_false} THEN t = T_TF
    ELSE IF key \in {K_choice, K_match} THEN t = T_M
    ELSE TRUE

\* the cell holds a text that parseInt cannot read
Unparsable(cell) == Trim(cell) # <<>> /\ IsNaNParseInt(cell)

\* C26: every row whose numeric cell cannot be parsed as an integer (Points,
\* Difficulty, InputBox, Option, True, False, Choice, Match) emits a
\* diagnostic; the question stays in progress and is not dropped, and a
\* Points or Difficulty row of this kind leaves the field as it was.
C26_UnparsableNumberDiagnosed ==
    [][\A key \in NumericKeys :
          (/\ Consumed(key)
           /\ currentQuestion # Null
           /\ NumericKeyFits(key, currentQuestion.type)
           /\ Unparsable(ConsumedValue)) =>
              /\ Len(NewMessages) >= 1
              /\ currentQuestion' # Null
              /\ questions' = questions
              /\ key = K_points =>
                    SameField(currentQuestion', currentQuestion, "points")
              /\ key = K_difficulty =>
                    SameField(currentQuestion', currentQuestion, "difficulty")
      ]_vars

-----------------------------------------------------------------------------
(* SpecOverwrite: several True and False rows in one TF block              *)

MaxOverwriteRecords == 5

OverwriteRows ==
    {<<IN_NewQuestion, T_TF>>,
     <<IN_True, NUM_100>>, <<IN_True, NUM_0, <<>>, S_html>>,
     <<IN_False, NUM_0>>, <<IN_False, NUM_100, TXT_G>>,
     <<IN_Feedback, TXT_F>>}

NextOverwrite ==
    \/ NewQuestionRow(OverwriteRows, MaxOverwriteRecords)
    \/ IgnoredRow(OverwriteRows, MaxOverwriteRecords)
    \/ TrueRow(OverwriteRows, MaxOverwriteRecords)
    \/ FalseRow(OverwriteRows, MaxOverwriteRecords)
    \/ FeedbackRow(OverwriteRows, MaxOverwriteRecords)
    \/ EndOfInput

SpecOverwrite == InitRows /\ [][NextOverwrite]_vars

\* the number in a credit cell of OverwriteRows
CreditOf(cell) == IF cell = NUM_100 THEN 100 ELSE 0

\* the option made of the row at index i and of nothing else
OptionOfRow(isTrue, rows, i) ==
    LET base == [isTrue |-> isTrue,
                 credit |-> CreditOf(GetValue(rows[i], 1)),
                 htmlFlag |-> (GetValue(rows[i], 3) = S_html),
                 definedLine |-> i]
    IN  IF GetValue(rows[i], 2) = <<>> THEN base
        ELSE [f \in DOMAIN base \cup {"feedback"} |->
                 IF f = "feedback" THEN GetValue(rows[i], 2) ELSE base[f]]

\* the option in field is defined when the block has a row of the key, and
\* then its credit, html flag and record index are those of the last one
FromLastRow(q, field, isTrue, key) ==
    LET i == LastInBlock(records, key)
    IN  IF i = 0 THEN ~Has(q, field)
        ELSE /\ Has(q, field)
             /\ \A f \in {"isTrue", "credit", "htmlFlag", "definedLine"} :
                   q[field][f] = OptionOfRow(isTrue, records, i)[f]

\* C27: in a TF question a later True (False) row replaces the whole
\* trueOption (falseOption): in every state the credit, html flag and
\* defined-at index of each option are those of the last row with its key,
\* and right after such a row the option is made of that row alone, so that
\* feedback given to the replaced option by an earlier Feedback row is gone.
C27_LaterRowReplacesOption ==
    /\ []((pc = "loop" /\ currentQuestion # Null) =>
             /\ FromLastRow(currentQuestion, "trueOption", TRUE, K_true)
             /\ FromLastRow(currentQuestion, "falseOption", FALSE, K_false))
    /\ [][/\ (Consumed(K_true) /\ currentQuestion # Null) =>
                currentQuestion'.trueOption =
                    OptionOfRow(TRUE, records', Len(records'))
          /\ (Consumed(K_false) /\ currentQuestion # Null) =>
                currentQuestion'.falseOption =
                    OptionOfRow(FALSE, records', Len(records'))
         ]_vars

\* a True row, a Feedback row that went to the trueOption, and a second True
\* row with credit 0 and the html flag: the option is that of the second row
\* and has no feedback
C27_Witness ==
    /\ records = <<<<IN_NewQuestion, T_TF>>, <<IN_True, NUM_100>>,
                   <<IN_Feedback, TXT_F>>, <<IN_True, NUM_0, <<>>, S_html>>>>
    /\ currentQuestion.trueOption =
          [isTrue |-> TRUE, credit |-> 0, htmlFlag |-> TRUE, definedLine |-> 4]

-----------------------------------------------------------------------------
(* SpecAppend: several Option rows in MC and MS blocks, several Item rows  *)
(* in O blocks, with Feedback rows between them                            *)

MaxAppendRecords == 5

AppendRows ==
    {<<IN_NewQuestion, T_MC>>, <<IN_NewQuestion, T_MS>>, <<IN_NewQuestion, T_O>>,
     <<IN_Option, NUM_100, TXT_A>>, <<IN_Option, NUM_0, TXT_B, S_html>>,
     <<IN_Item, TXT_A>>, <<IN_Item, TXT_B, S_html>>,
     <<IN_Feedback, TXT_F>>}

NextAppend ==
    \/ NewQuestionRow(AppendRows, MaxAppendRecords)
    \/ IgnoredRow(AppendRows, MaxAppendRecords)
    \/ OptionRow(AppendRows, MaxAppendRecords)
    \/ ItemRow(AppendRows, MaxAppendRecords)
    \/ FeedbackRow(AppendRows, MaxAppendRecords)
    \/ EndOfInput

SpecAppend == InitRows /\ [][NextAppend]_vars

\* the key of the rows that fill the collection of a question of type t
ElementKey(t) == IF t = T_O THEN K_item ELSE K_option

\* the collection of q, empty while q has none
ElementsOf(q) ==
    IF Has(q, CollectionField(q)) THEN q[CollectionField(q)] ELSE <<>>

\* the indexes of the rows of the block being built that fill its collection
ElementRows(rows, t) ==
    {i \in RowsOfKey(rows, ElementKey(t)) : i > LastNewQuestion(rows)}

\* the element a question of type t gets from a row of AppendRows (none of
\* them has a feedback cell)
ElementOfRow(t, row) ==
    IF t = T_O
    THEN [text |-> GetValue(row, 1), htmlFlag |-> (GetValue(row, 2) = S_html),
          feedbackHtmlFlag |-> FALSE]
    ELSE IF t = T_MC
    THEN [percent |-> CreditOf(GetValue(row, 1)), text |-> GetValue(row, 2),
          htmlFlag |-> (GetValue(row, 3) = S_html), feedbackHtmlFlag |-> FALSE]
    ELSE [weight |-> CreditOf(GetValue(row, 1)), text |-> GetValue(row, 2),
          htmlFlag |-> (GetValue(row, 3) = S_html), feedbackHtmlFlag |-> FALSE]

\* element e was built from the row: it is the element of the row, but for a
\* feedback that a Feedback row may have given it since
BuiltFrom(e, t, row) ==
    /\ DOMAIN e \ {"feedback"} = DOMAIN ElementOfRow(t, row)
    /\ \A f \in DOMAIN ElementOfRow(t, row) : e[f] = ElementOfRow(t, row)[f]

\* C28: in an MC or MS question each Option row, and in an O question each
\* Item row, appends exactly one element at the tail: in every state the
\* collection is as long as the number of such rows since the NewQuestion
\* row and its k-th element was built from the k-th of them, and no row
\* removes or reorders elements.
C28_OneElementPerRowInOrder ==
    /\ []((pc = "loop" /\ currentQuestion # Null) =>
            LET t == currentQuestion.type
                from == ElementRows(records, t)
                c == ElementsOf(currentQuestion)
            IN  /\ Len(c) = Cardinality(from)
                /\ \A k \in 1..Len(c) :
                      BuiltFrom(c[k], t, records[KthSmallest(from, k)]))
    /\ [][(ConsumedOther /\ currentQuestion # Null) =>
            LET t == currentQuestion.type
                row == records'[Len(records')]
            IN  IF TypeOrKey(row) = ElementKey(t)
                THEN ElementsOf(currentQuestion') =
                        Append(ElementsOf(currentQuestion),
                               ElementOfRow(t, row))
                ELSE /\ Len(ElementsOf(currentQuestion')) =
                          Len(ElementsOf(currentQuestion))
                     /\ \A k \in 1..Len(ElementsOf(currentQuestion)) :
                           \A f \in DOMAIN ElementsOf(currentQuestion)[k]
                                      \ {"feedback"} :
                              ElementsOf(currentQuestion')[k][f] =
                                 ElementsOf(currentQuestion)[k][f]
         ]_vars

\* an O block with the items A and B, a Feedback row, and a third item: the
\* three items stand in the order of their rows, the second with the feedback
C28_Witness ==
    /\ records = <<<<IN_NewQuestion, T_O>>, <<IN_Item, TXT_A>>,
                   <<IN_Item, TXT_B, S_html>>, <<IN_Feedback, TXT_F>>,
                   <<IN_Item, TXT_A>>>>
    /\ Len(currentQuestion.items) = 3
    /\ currentQuestion.items[1].text = TXT_A
    /\ currentQuestion.items[2].text = TXT_B
    /\ currentQuestion.items[2].feedback = TXT_F
    /\ currentQuestion.items[3] =
          [text |-> TXT_A, htmlFlag |-> FALSE, feedbackHtmlFlag |-> FALSE]

-----------------------------------------------------------------------------
(* SpecLines: splitCsvToRecords on every short text of letters, spaces,    *)
(* line feeds and double quotes, against the plain line split of the       *)
(* earlier parser                                                          *)

MaxLineLen == 5

LineChars == {"x", SPACE, LF, QUOTE}

LineInputs == UNION {[1..n -> LineChars] : n \in 0..MaxLineLen}

\* String.prototype.split('\n'): the pieces between the line feeds, the
\* empty ones included; current is the piece read so far
RECURSIVE SplitOnLineFeed(_, _)
SplitOnLineFeed(s, current) ==
    IF s = <<>> THEN <<current>>
    ELSE IF Head(s) = LF
    THEN <<current>> \o SplitOnLineFeed(Tail(s), <<>>)
    ELSE SplitOnLineFeed(Tail(s), Append(current, Head(s)))

\* const rows = csvContent.split('\n').map(row => row.trim()).filter(...)
PlainSplitRows(csvContent_) ==
    LET lines == SplitOnLineFeed(csvContent_, <<>>)
    IN  FilterNonEmpty([k \in 1..Len(lines) |-> Trim(lines[k])])

InitLines ==
    /\ csvContent \in LineInputs
    /\ pending = <<>>
    /\ records = <<>>
    /\ questions = <<>>
    /\ currentQuestion = Null
    /\ currentLineNumber = 0
    /\ console = <<>>
    /\ pc = "start"
    /\ UIInit

NextLines ==
    \/ SplitRecords
    \/ IgnoredRow(FromBuffer, RecordCount)
    \/ EndOfInput

SpecLines == InitLines /\ [][NextLines]_vars

\* the number of double quotes in a text
QuoteCount(s) == Cardinality({j \in 1..Len(s) : s[j] = QUOTE})

\* every physical line of s holds an even number of double quotes
EveryLineEvenQuotes(s) ==
    LET lines == Segments(s, {i \in 1..Len(s) : s[i] = LF})
    IN  \A k \in 1..Len(lines) : QuoteCount(lines[k]) % 2 = 0

\* C29: for every buffer in which each physical line holds an even number
\* of double quotes, splitCsvToRecords returns the sequence of the plain
\* line split (split on line feed, trim each line, discard the empty
\* lines), and these are the records the loop goes through.
C29_PlainSplitWhenLinesBalanced ==
    EveryLineEvenQuotes(csvContent) =>
        /\ SplitCsvToRecords(csvContent) = PlainSplitRows(csvContent)
        /\ pc = "loop" =>
              pending = SubSeq(PlainSplitRows(csvContent), Len(records) + 1,
                               Len(PlainSplitRows(csvContent)))

\* a line of two double quotes and a line of a space and a letter: the
\* records are the two lines, the second trimmed
C29_Witness ==
    /\ pc = "loop"
    /\ csvContent = <<QUOTE, QUOTE, LF, SPACE, "x">>
    /\ EveryLineEvenQuotes(csvContent)
    /\ pending = <<<<QUOTE, QUOTE>>, <<"x">>>>

-----------------------------------------------------------------------------
(* SpecUnclosed: buffers of two WR blocks with a short text of letters,    *)
(* line feeds and double quotes in the QuestionText cell of the first      *)

MaxMid == 3

MidChars == {"x", LF, QUOTE}

Mids == UNION {[1..n -> MidChars] : n \in 0..MaxMid}

CSV_SECOND ==
    <<LF>> \o CsvOf(<<<<IN_NewQuestion, T_WR>>, <<IN_Title, TXT_A>>>>)

\* the first block up to its QuestionText cell, the text mid, and the second
\* block on lines of its own
UnclosedBuffer(mid) == CSV_HEAD \o mid \o CSV_SECOND

InitUnclosed ==
    /\ csvContent \in {UnclosedBuffer(mid) : mid \in Mids}
    /\ pending = <<>>
    /\ records = <<>>
    /\ questions = <<>>
    /\ currentQuestion = Null
    /\ currentLineNumber = 0
    /\ console = <<>>
    /\ pc = "start"
    /\ UIInit

NextUnclosed ==
    \/ SplitRecords
    \/ NewQuestionRow(FromBuffer, RecordCount)
    \/ TitleRow(FromBuffer, RecordCount)
    \/ QuestionTextRow(FromBuffer, RecordCount)
    \/ DefaultRow(FromBuffer, RecordCount)
    \/ EndOfInput

SpecUnclosed == InitUnclosed /\ [][NextUnclosed]_vars

\* s has an opening double quote that is never closed: a quoted span is open
\* at its end
Unclosed(s) == OpenAt(s, Len(s) + 1)

\* the position of that quote: the last double quote that toggles
OpeningQuote(s) ==
    CHOOSE p \in 1..Len(s) :
        TogglesAt(s, p) /\ \A j \in (p + 1)..Len(s) : ~TogglesAt(s, j)

\* the position where the record that holds position p starts
RecordStart(s, p) ==
    LET before == {b \in Boundaries(s) : b < p}
    IN  IF before = {} THEN 1
        ELSE (CHOOSE b \in before : \A c \in before : c <= b) + 1

\* C30: when the buffer has an opening double quote that is never closed,
\* splitCsvToRecords finds no record boundary after it: the records are those
\* of the text before the record that holds the quote, followed by one
\* record that runs from the start of that record to the end of the buffer;
\* so no NewQuestion line after the quote becomes a NewQuestion row.
C30_UnclosedQuoteTakesRest ==
    Unclosed(csvContent) =>
        LET start == RecordStart(csvContent, OpeningQuote(csvContent))
            before == SplitCsvToRecords(SubSeq(csvContent, 1, start - 1))
            rest == Trim(SubSeq(csvContent, start, Len(csvContent)))
        IN  /\ SplitCsvToRecords(csvContent) = Append(before, rest)
            /\ pc # "start" => RecordCount = Len(before) + 1
            /\ \A i \in RowsOfKey(records, K_newquestion) : i <= Len(before)

\* the QuestionText cell of the first block opens a quote that is never
\* closed: the buffer has three records, the lines of the second block are
\* part of the third, and the quiz has the first question, whose text holds
\* those lines
C30_Witness ==
    /\ pc = "done"
    /\ csvContent = UnclosedBuffer(<<QUOTE>>)
    /\ Len(records) = 3
    /\ Cardinality(RowsOfKey(records, K_newquestion)) = 1
    /\ Len(questions) = 1
    /\ questions[1].questionText = Trim(CSV_SECOND)

-----------------------------------------------------------------------------
(* The records of splitCsvToRecords, under SpecLines                       *)

\* the first position from which r is read in s, not before from; 0 if
\* there is none
FindFrom(s, r, from) ==
    LET at == {p \in from..(Len(s) - Len(r) + 1) :
                  SubSeq(s, p, p + Len(r) - 1) = r}
    IN  IF at = {} THEN 0 ELSE CHOOSE p \in at : \A o \in at : p <= o

\* the records are read in s one after the other, from position from on
RECURSIVE InBufferOrder(_, _, _)
InBufferOrder(s, recs, from) ==
    IF recs = <<>> THEN TRUE
    ELSE LET p == FindFrom(s, Head(recs), from)
         IN  p # 0 /\ InBufferOrder(s, Tail(recs), p + Len(Head(recs)))

\* C31: no record returned by splitCsvToRecords is empty or whitespace-only
\* or starts or ends with whitespace, and the records stand in the order of
\* their position in the buffer; these are the records the loop is given.
C31_RecordsTrimmedInOrder ==
    LET recs == SplitCsvToRecords(csvContent)
    IN  /\ \A k \in 1..Len(recs) :
              /\ recs[k] # <<>>
              /\ Trim(recs[k]) # <<>>
              /\ recs[k][1] \notin Whitespace
              /\ recs[k][Len(recs[k])] \notin Whitespace
        /\ InBufferOrder(csvContent, recs, 1)
        /\ pc = "loop" => pending = SubSeq(recs, Len(records) + 1, Len(recs))

\* a line with a leading space, an empty line and a third line: two records,
\* the first without its space
C31_Witness ==
    /\ pc = "loop"
    /\ csvContent = <<SPACE, "x", LF, LF, QUOTE>>
    /\ pending = <<<<"x">>, <<QUOTE>>>>

-----------------------------------------------------------------------------
(* SpecCase: rows whose cells are written in different letter cases        *)

IN_TITLE == <<"T","I","T","L","E">>
S_HTML == <<"H","T","M","L">>
TXT_a == <<"a">>

MaxCaseRecords == 4

CaseRows ==
    {<<IN_NewQuestion, T_MC>>, <<K_newquestion, T_MC>>, <<IN_NewQuestion, IN_mc>>,
     <<IN_Title, TXT_A>>, <<IN_TITLE, TXT_a>>,
     <<IN_QuestionText, TXT_B>>, <<K_questiontext, TXT_B>>,
     <<IN_Option, NUM_100, TXT_A, S_html>>, <<K_option, NUM_100, TXT_A, S_HTML>>,
     <<IN_Option, NUM_100, TXT_a>>}

NextCase ==
    \/ NewQuestionRow(CaseRows, MaxCaseRecords)
    \/ IgnoredRow(CaseRows, MaxCaseRecords)
    \/ TitleRow(CaseRows, MaxCaseRecords)
    \/ QuestionTextRow(CaseRows, MaxCaseRecords)
    \/ OptionRow(CaseRows, MaxCaseRecords)
    \/ EndOfInput

SpecCase == InitRows /\ [][NextCase]_vars

\* rows with the first cell of every row in lower case
LowerFirstCells(rows) ==
    [k \in 1..Len(rows) |->
        IF rows[k] = <<>> THEN rows[k]
        ELSE [rows[k] EXCEPT ![1] = ToLowerCase(@)]]

\* the state of the parse is the one the same rows give with their first
\* cells in lower case; so inputs that differ only in the letter case of
\* first cells give equal questions (and equal diagnostics)
FirstCellCaseIgnored ==
    /\ pc = "loop" => State = RunLoop(StartState, LowerFirstCells(records))
    /\ pc = "done" =>
          State = AfterLoop(RunLoop(StartState, LowerFirstCells(records)))

\* the type code of a NewQuestion row is compared as written: the code mc
\* opens no question
TypeCodeExact ==
    (Consumed(K_newquestion) /\ ConsumedValue = IN_mc) =>
        /\ currentQuestion' = Null
        /\ NewMessages[Len(NewMessages)] =
              Diag("warn", "UnknownType", Len(records'))

\* the texts of Title rows and Option rows are stored as written
TextsKeptAsWritten ==
    /\ (Consumed(K_title) /\ currentQuestion # Null) =>
          currentQuestion'.title = ConsumedValue
    /\ (Consumed(K_option) /\ currentQuestion # Null) =>
          currentQuestion'.options[Len(currentQuestion'.options)].text =
              GetValue(records'[Len(records')], 2)

\* C32 (as stated): row keys are matched without regard to letter case and
\* nothing else is: inputs that differ only in the case of first cells give
\* equal Quiz values, the type code of a NewQuestion row is compared
\* exactly, and so is every other cell that is compared with a word, such as
\* the html flag of an Option row.
C32_OnlyKeysIgnoreCase ==
    /\ []FirstCellCaseIgnored
    /\ [][TypeCodeExact]_vars
    /\ [][(Consumed(K_option) /\ currentQuestion # Null) =>
             currentQuestion'.options[Len(currentQuestion'.options)].htmlFlag
                = (GetValue(records'[Len(records')], 3) = S_html)]_vars

\* C32 (amended): row keys are matched without regard to letter case:
\* inputs that differ only in the case of first cells give equal Quiz
\* values; the type code of a NewQuestion row is compared exactly, so mc is
\* unknown; texts are stored as written; the html flag of an Option row is
\* matched without regard to case as well.
C32_KeysAndFlagsIgnoreCase ==
    /\ []FirstCellCaseIgnored
    /\ [][TypeCodeExact]_vars
    /\ [][TextsKeptAsWritten]_vars
    /\ [][(Consumed(K_option) /\ currentQuestion # Null) =>
             currentQuestion'.options[Len(currentQuestion'.options)].htmlFlag
                = (ToLowerCase(GetValue(records'[Len(records')], 3)) = S_html)
         ]_vars

\* a block written with a lower-case newquestion, an upper-case TITLE, a
\* lower-case questiontext and a lower-case option row with the flag HTML:
\* the quiz has its question, with the title as written and the flag set
C32_Witness ==
    /\ pc = "done"
    /\ records = <<<<K_newquestion, T_MC>>, <<IN_TITLE, TXT_a>>,
                   <<K_questiontext, TXT_B>>,
                   <<K_option, NUM_100, TXT_A, S_HTML>>>>
    /\ Len(questions) = 1
    /\ questions[1].title = TXT_a
    /\ questions[1].options[1].htmlFlag = TRUE

-----------------------------------------------------------------------------
(* SpecDistinct: M blocks with title and text whose Choice and Match rows  *)
(* name the same number in several spellings, and numbers that are invalid *)

MaxDistinctRecords == 6

\* the rows that may come next: a NewQuestion row (two blocks at most), in a
\* block Title and QuestionText once each, and the Choice and Match rows
DistinctRows ==
    (IF Cardinality(RowsOfKey(records, K_newquestion)) < 2
     THEN {<<IN_NewQuestion, T_M>>} ELSE {})
    \cup (IF currentQuestion = Null THEN {}
          ELSE (IF Has(currentQuestion, "title") THEN {}
                ELSE {<<IN_Title, TXT_A>>})
               \cup (IF Has(currentQuestion, "questionText") THEN {}
                     ELSE {<<IN_QuestionText, TXT_B>>})
               \cup {<<IN_Choice, NUM_1, TXT_A>>, <<IN_Choice, NUM_1x, TXT_B>>,
                     <<IN_Choice, NUM_0, TXT_A>>,
                     <<IN_Match, NUM_1, TXT_X>>, <<IN_Match, NUM_2, TXT_Y>>,
                     <<IN_Match, NUM_minus1, TXT_X>>})

NextDistinct ==
    \/ NewQuestionRow(DistinctRows, MaxDistinctRecords)
    \/ TitleRow(DistinctRows, MaxDistinctRecords)
    \/ QuestionTextRow(DistinctRows, MaxDistinctRecords)
    \/ ChoiceRow(DistinctRows, MaxDistinctRecords)
    \/ MatchRow(DistinctRows, MaxDistinctRecords)
    \/ EndOfInput

SpecDistinct == InitRows /\ [][NextDistinct]_vars

\* no two pairs of q share a choiceNo, and every choiceNo is positive
DistinctPositive(q) ==
    LET pairs == PairsOf(q)
    IN  /\ \A i, j \in 1..Len(pairs) :
              i # j => pairs[i].choiceNo # pairs[j].choiceNo
        /\ \A i \in 1..Len(pairs) : pairs[i].choiceNo > 0

\* C33: in every state of a Matching question being built, and in every
\* Matching question of the Quiz, no two pairs share a choiceNo and every
\* choiceNo is a positive integer.
C33_PairNumbersDistinctPositive ==
    /\ (currentQuestion # Null /\ currentQuestion.type = T_M) =>
          DistinctPositive(currentQuestion)
    /\ \A i \in 1..Len(questions) :
          questions[i].type = T_M => DistinctPositive(questions[i])

\* a block with two Choice rows that spell the number 1 differently and a
\* Match row for number 2 was appended at the next NewQuestion row: its
\* question has the pairs 1 and 2
C33_Witness ==
    /\ records = <<<<IN_NewQuestion, T_M>>, <<IN_Title, TXT_A>>,
                   <<IN_QuestionText, TXT_B>>, <<IN_Choice, NUM_1, TXT_A>>,
                   <<IN_Choice, NUM_1x, TXT_B>>, <<IN_NewQuestion, T_M>>>>
    /\ Len(questions) = 1
    /\ questions[1].pairs =
          <<[choiceNo |-> 1, choiceText |-> TXT_B, matchText |-> <<>>]>>

-----------------------------------------------------------------------------
(* Swapping a Choice row with a Match row next to it, under SpecPairs      *)

\* rows with the rows at i and i + 1 swapped
SwapAt(rows, i) ==
    [k \in 1..Len(rows) |->
        IF k = i THEN rows[i + 1] ELSE IF k = i + 1 THEN rows[i] ELSE rows[k]]

\* the pairs of q as a set
PairSet(q) == {PairsOf(q)[k] : k \in 1..Len(PairsOf(q))}

\* the places of the block being built where a Choice row and a Match row
\* stand next to each other, in either order
ChoiceNextToMatch(rows) ==
    {i \in (LastNewQuestion(rows) + 1)..(Len(rows) - 1) :
        {TypeOrKey(rows[i]), TypeOrKey(rows[i + 1])} = {K_choice, K_match}}

\* C34: for a Matching question, swapping two adjacent rows of which one is
\* a Choice row and the other a Match row (of the same or of different
\* positive numbers) does not change the set of pairs (choiceNo, choiceText,
\* matchText) of the question, whatever rows come before and after them.
C34_SwapKeepsPairSet ==
    (pc = "loop" /\ currentQuestion # Null /\ currentQuestion.type = T_M) =>
        \A i \in ChoiceNextToMatch(records) :
            PairSet(RunLoop(StartState, SwapAt(records, i)).currentQuestion)
                = PairSet(currentQuestion)

\* the Match row of number 1 came before its Choice row: one pair with both
\* texts, as when the Choice row comes first, and the placeholder warning
C34_Witness ==
    /\ pc = "loop"
    /\ records = <<<<IN_NewQuestion, T_M>>, <<IN_Match, NUM_1, TXT_X>>,
                   <<IN_Choice, NUM_1, TXT_A>>>>
    /\ currentQuestion.pairs =
          <<[choiceNo |-> 1, choiceText |-> TXT_A, matchText |-> TXT_X]>>
    /\ console = <<Diag("warn", "PlaceholderChoice", 2)>>


-----------------------------------------------------------------------------
(* The page under overlapping uploads (SpecPage)                           *)

\* the positions of eventLoop.calls where FileUpload delivered an upload
\* event to Home: onFileAccepted or onFileRejected
Delivered ==
    {i \in 1..Len(eventLoop.calls) :
        eventLoop.calls[i].callback \in {"onFileAccepted", "onFileRejected"}}

\* the most recently delivered upload event
LastDelivered ==
    eventLoop.calls[CHOOSE i \in Delivered : \A j \in Delivered : j <= i]

\* what parseQuizCsv returns for the content read from the file of drop k
QuestionsOfDrop(k) == ParseQuizCsv(eventLoop.drops[k].acceptedFiles[1].content)

\* C35: once every scheduled parse callback has run, the page reflects only
\* the most recently delivered upload event: if that event was an accepted
\* file whose parse yields at least one question, quiz is that file's Quiz
\* and error is null, whatever accepted or rejected files came before it.
C35_LastUploadEventWins ==
    (eventLoop.timers = <<>> /\ Delivered # {}) =>
        ((/\ LastDelivered.callback = "onFileAccepted"
          /\ Len(QuestionsOfDrop(LastDelivered.drop)) > 0) =>
            /\ home.quiz = [questions |-> QuestionsOfDrop(LastDelivered.drop)]
            /\ home.error = Null)

\* C36: in every page state where quiz and fileName are both non-null, the
\* quiz was parsed from the content that was delivered together with that
\* fileName; the questions of one file are never held under the name of
\* another.
C36_QuizBelongsToFileName ==
    (home.quiz # Null /\ home.fileName # Null) =>
        \E i \in 1..Len(eventLoop.calls) :
            /\ eventLoop.calls[i].callback = "onFileAccepted"
            /\ eventLoop.calls[i].file = home.fileName
            /\ home.quiz =
                  [questions |-> QuestionsOfDrop(eventLoop.calls[i].drop)]

\* C37: isLoading is true in every page state in which an accepted file has
\* a parse scheduled that has not yet run, and false when no parse is
\* pending.
C37_LoadingWhileParsePending ==
    /\ eventLoop.timers # <<>> => home.isLoading
    /\ eventLoop.timers = <<>> => ~home.isLoading

-----------------------------------------------------------------------------
(* SpecInline: Option, Item, True and False rows with and without inline   *)
(* feedback, and Feedback rows after them                                  *)

MaxInlineRecords == 5

\* the rows that create the elements of a block of type t, with the feedback
\* cell filled and without it
InlineContentRows(t) ==
    IF t \in {T_MC, T_MS}
    THEN {<<IN_Option, NUM_100, TXT_A, <<>>, TXT_G>>, <<IN_Option, NUM_0, TXT_B>>}
    ELSE IF t = T_TF
    THEN {<<IN_True, NUM_100, TXT_G>>, <<IN_True, NUM_0>>,
          <<IN_False, NUM_0, TXT_G>>, <<IN_False, NUM_100>>}
    ELSE IF t = T_O
    THEN {<<IN_Item, TXT_A, <<>>, TXT_G>>, <<IN_Item, TXT_B>>}
    ELSE {}

\* at most two blocks
InlineRows ==
    (IF Cardinality(RowsOfKey(records, K_newquestion)) < 2
     THEN {<<IN_NewQuestion, t>> : t \in {T_MC, T_MS, T_TF, T_O}} ELSE {})
    \cup {<<IN_Feedback, TXT_F>>, <<IN_Feedback, TXT_B>>, <<IN_Feedback>>}
    \cup (IF currentQuestion = Null THEN {}
          ELSE InlineContentRows(currentQuestion.type))

NextInline ==
    \/ NewQuestionRow(InlineRows, MaxInlineRecords)
    \/ FeedbackRow(InlineRows, MaxInlineRecords)
    \/ OptionRow(InlineRows, MaxInlineRecords)
    \/ TrueRow(InlineRows, MaxInlineRecords)
    \/ FalseRow(InlineRows, MaxInlineRecords)
    \/ ItemRow(InlineRows, MaxInlineRecords)
    \/ EndOfInput

SpecInline == InitRows /\ [][NextInline]_vars

\* the rows of key of the block in progress
InBlock(rows, key) ==
    {i \in RowsOfKey(rows, key) : i > LastNewQuestion(rows)}

\* the last row of key before row i in the block in progress, 0 if none
LastBefore(rows, key, i) ==
    LET before == {j \in InBlock(rows, key) : j < i}
    IN  IF before = {} THEN 0
        ELSE CHOOSE j \in before : \A k \in before : k <= j

\* the cell of a creating row that holds the inline feedback
InlineCell(row) ==
    IF TypeOrKey(row) = K_option THEN GetValue(row, 4)
    ELSE IF TypeOrKey(row) = K_item THEN GetValue(row, 3)
    ELSE GetValue(row, 2)

\* element o, created by row c and targeted by the Feedback rows W, has the
\* feedback written by the latest of these rows: the inline cell of c (none
\* when the cell is empty) or the second cell of the Feedback row
WrittenByLatest(o, rows, c, W) ==
    LET w == CHOOSE i \in W \cup {c} : \A j \in W \cup {c} : j <= i
    IN  IF w = c
        THEN IF InlineCell(rows[c]) = <<>> THEN ~Has(o, "feedback")
             ELSE Has(o, "feedback") /\ o.feedback = InlineCell(rows[c])
        ELSE Has(o, "feedback") /\ o.feedback = GetValue(rows[w], 1)

\* the Feedback row i of a TF block targets the False option: a False row
\* came before it, after the last True row if there is one
TargetsFalse(rows, i) ==
    /\ LastBefore(rows, K_false, i) # 0
    /\ LastBefore(rows, K_false, i) > LastBefore(rows, K_true, i)

\* the rows that create the elements of the collection of q
Creators(rows, q) ==
    InBlock(rows, IF q.type = T_O THEN K_item ELSE K_option)

\* C38: a Feedback row that attaches to an option or item replaces any
\* feedback the element already had, also the feedback given inline in the
\* Option / Item / True / False row that created it: after any sequence of
\* rows an element's feedback is the value written by the latest row that
\* targeted it (the row that created it or a Feedback row that followed
\* while it was the element Feedback rows attach to).
C38_LatestRowSetsFeedback ==
    (pc = "loop" /\ currentQuestion # Null) =>
        LET q == currentQuestion
            fb == InBlock(records, K_feedback)
        IN  /\ q.type \in {T_MC, T_MS, T_O} =>
                LET cs == Creators(records, q)
                    n == Cardinality(cs)
                IN  /\ (n > 0) = Has(q, CollectionField(q))
                    /\ n > 0 => Len(q[CollectionField(q)]) = n
                    /\ \A k \in 1..n :
                         LET c == KthSmallest(cs, k)
                             next == IF k = n THEN Len(records) + 1
                                     ELSE KthSmallest(cs, k + 1)
                         IN  WrittenByLatest(q[CollectionField(q)][k], records,
                                 c, {i \in fb : c < i /\ i < next})
            /\ q.type = T_TF =>
                LET t == LastBefore(records, K_true, Len(records) + 1)
                    f == LastBefore(records, K_false, Len(records) + 1)
                IN  /\ (t # 0) = Has(q, "trueOption")
                    /\ (f # 0) = Has(q, "falseOption")
                    /\ t # 0 => WrittenByLatest(q.trueOption, records, t,
                          {i \in fb : t < i /\ ~TargetsFalse(records, i)})
                    /\ f # 0 => WrittenByLatest(q.falseOption, records, f,
                          {i \in fb : f < i /\ TargetsFalse(records, i)})

\* an option with inline feedback G got a Feedback row: its feedback is F
C38_Witness ==
    /\ pc = "loop"
    /\ records = <<<<IN_NewQuestion, T_MC>>,
                   <<IN_Option, NUM_100, TXT_A, <<>>, TXT_G>>,
                   <<IN_Feedback, TXT_F>>>>
    /\ currentQuestion.options[1].feedback = TXT_F

-----------------------------------------------------------------------------
(* SpecAgree: the quote state of the record splitter and of the row        *)
(* tokenizer on short texts of letters, commas, spaces, line feeds and     *)
(* double quotes                                                           *)

MaxAgreeLen == 5

AgreeChars == {"x", COMMA, SPACE, LF, QUOTE}

AgreeInputs == UNION {[1..n -> AgreeChars] : n \in 0..MaxAgreeLen}

InitAgree ==
    /\ csvContent \in AgreeInputs
    /\ pending = <<>>
    /\ records = <<>>
    /\ questions = <<>>
    /\ currentQuestion = Null
    /\ currentLineNumber = 0
    /\ console = <<>>
    /\ pc = "start"
    /\ UIInit

NextAgree ==
    \/ SplitRecords
    \/ IgnoredRow(FromBuffer, RecordCount)
    \/ EndOfInput

SpecAgree == InitAgree /\ [][NextAgree]_vars

\* the pieces splitCsvToRecords pushes, before map(trim) and filter
RawRecords(s) == SplitRecordsLoop(s, 1, 0, FALSE, <<>>)

\* s with the character at position i replaced by c
WithChar(s, i, c) == [s EXCEPT ![i] = c]

\* inQuotes of splitCsvToRecords when its loop is at the character i of s
\* (not a double quote): a line feed in that place ends no record.  The
\* letter added at the end keeps the last piece from being empty.
SplitterInQuotes(s, i) ==
    Len(RawRecords(Append(WithChar(s, i, LF), "x"))) =
        Len(RawRecords(Append(WithChar(s, i, "x"), "x")))

\* inQuotes of splitCsvRow when its loop is at the character p of row (not a
\* double quote): a comma in that place starts no cell
TokenizerInQuotes(row, p) ==
    Len(SplitRowLoop(WithChar(row, p, COMMA), 1, <<>>, FALSE, <<>>)) =
        Len(SplitRowLoop(WithChar(row, p, "x"), 1, <<>>, FALSE, <<>>))

\* the position in the buffer of the first character of the k-th piece: the
\* pieces follow each other with one line feed in between
RECURSIVE StartOf(_, _)
StartOf(raw, k) ==
    IF k = 1 THEN 1 ELSE StartOf(raw, k - 1) + Len(raw[k - 1]) + 1

\* the position in the buffer of the character p of the trimmed k-th piece
BufferPos(raw, k, p) ==
    StartOf(raw, k) + (Len(raw[k]) - Len(TrimStart(raw[k]))) + p - 1

\* the pieces that survive map(trim) and filter
Kept(raw) == {k \in 1..Len(raw) : Trim(raw[k]) # <<>>}

\* C39: the record splitter and the row tokenizer agree on quoting: for
\* every record returned by splitCsvToRecords, at each character of the
\* record that is not a double quote, the in-quotes state of splitCsvRow
\* equals the state splitCsvToRecords had at that character; so every line
\* feed kept inside a record lies inside a quoted span for the tokenizer and
\* every comma the splitter saw outside quotes is a cell separator.
C39_SplitterAndTokenizerAgree ==
    (pc = "loop" /\ records = <<>>) =>
        LET raw == RawRecords(csvContent)
        IN  /\ Len(pending) = Cardinality(Kept(raw))
            /\ \A j \in 1..Len(pending) :
                 LET k == KthSmallest(Kept(raw), j)
                     rec == pending[j]
                     outside == {p \in 1..Len(rec) :
                                    /\ rec[p] # QUOTE
                                    /\ ~SplitterInQuotes(csvContent,
                                                         BufferPos(raw, k, p))}
                 IN  /\ rec = Trim(raw[k])
                     /\ \A p \in 1..Len(rec) :
                          /\ csvContent[BufferPos(raw, k, p)] = rec[p]
                          /\ rec[p] # QUOTE =>
                               /\ TokenizerInQuotes(rec, p) = (p \notin outside)
                               /\ rec[p] = LF => TokenizerInQuotes(rec, p)
                     /\ Len(SplitCsvRow(rec)) =
                          1 + Cardinality({p \in outside : rec[p] = COMMA})

\* a record with a line feed inside quotes and a comma after them
C39_Witness ==
    /\ pc = "loop"
    /\ records = <<>>
    /\ pending = <<<<QUOTE, LF, QUOTE, COMMA, "x">>>>
    /\ TokenizerInQuotes(pending[1], 2)
    /\ ~TokenizerInQuotes(pending[1], 4)
    /\ Len(SplitCsvRow(pending[1])) = 2
====
